---- MODULE Spec2Model ----
(***************************************************************************)
(* Model of the cdd-backend Express server (src/server.js, current        *)
(* variant at lines 1-2120, legacy variant at lines 3570-4747).           *)
(* The remote Postgres tables are the state; every request handler is an  *)
(* action; every remote call may return an error.                         *)
(***************************************************************************)
EXTENDS Integers, FiniteSets, Sequences, TLC

VARIABLES
    useraccount,          \* rows of table useraccount
    vgwishlist,           \* rows of table vgwishlist
    vgwishlist_console,   \* rows of table vgwishlist_console
    wlseq,                \* last value of the vgwishlist.wishlistid serial
    gamedetails,          \* rows of table gamedetails
    vgcollection,         \* rows of table vgcollection
    vgcollection_console, \* rows of table vgcollection_console
    colseq,               \* last value of the gamedetails / vgcollection serials
    gameinfo,             \* rows of table gameinfo
    gameinfo_console,     \* rows of table gameinfo_console
    giseq,                \* last value of the gameid serial
    friend_requests,      \* rows of table friend_requests
    friendships,          \* rows of table friendships
    chat_threads,         \* rows of table chat_threads
    clock,                \* wall clock, in minutes
    held,                 \* the access token the client keeps from its last login
    cookie,               \* the client's refreshToken cookie
    reg,                  \* POST /register requests: per slot, position and body
    edit,                 \* PUT /api/edit-wishlist requests: per slot, position and request
    conc,                 \* how many requests the server serves at the same time
    run,                  \* the request a handler is executing statement by statement
    form,                 \* the game-details form the client submits
    resp                  \* the last response sent

db == <<useraccount, vgwishlist, vgwishlist_console, wlseq, gamedetails,
        vgcollection, vgcollection_console, colseq, gameinfo, gameinfo_console, giseq,
        friend_requests, friendships, chat_threads>>

vars == <<useraccount, vgwishlist, vgwishlist_console, wlseq, gamedetails,
          vgcollection, vgcollection_console, colseq, gameinfo, gameinfo_console, giseq,
          friend_requests, friendships, chat_threads,
          clock, held, cookie, reg, edit, conc, run, form, resp>>

wishTables == <<vgwishlist, vgwishlist_console, wlseq>>
collTables == <<gamedetails, vgcollection, vgcollection_console, colseq>>
friendTables == <<friend_requests, friendships, chat_threads>>
gameTables == <<gameinfo, gameinfo_console, giseq>>

----------------------------------------------------------------------------
(* Bounds of the model *)

MaxUsers == 2          \* rows POST /register may create
MaxClock == 20         \* minutes the clock runs
TickMinutes == 5       \* minutes per clock step
MaxWishSeq == 2        \* values the wishlistid serial may hand out
MaxCollSeq == 2        \* values the collection serials may hand out
MaxGameSeq == 2        \* values the gameid serial may hand out
MaxFriendRows == 2     \* rows friend_requests and friendships may hold together

(* Program constants *)

AccessTtlMinutes == 15 \* expiresIn: '15m'

(* Request inputs *)

Usernames == {"u1", "u2"}
Emails == {"e1", "e2"}
Passwords == {"p1", "p2"}
GameIds == {1, 2}
ConsoleIdSets == {{}, {1, 2}}

RegisterBodies ==
    { [username |-> "u1", email |-> "e1", password |-> "p1", admin |-> FALSE, avatar |-> FALSE],
      [username |-> "u1", email |-> "e2", password |-> "p2", admin |-> TRUE, avatar |-> TRUE],
      [username |-> "u2", email |-> "e2", password |-> "p1", admin |-> FALSE, avatar |-> FALSE] }

UserIds == 1..(MaxUsers + 1)

----------------------------------------------------------------------------
(* Library behaviour the handlers rely on *)

\* bcrypt.hash(password, 10): the stored value is not the plaintext
\* The password kept as it was sent
HashPlain(p) == [plain |-> p]

Hash(p) == [bcrypt |-> p]

\* bcrypt.compare(password, hash)
Compare(p, h) == h = Hash(p)

\* supabase .single(): an error unless exactly one row matches
SingleFirstRow(rows) ==
    [error |-> FALSE, data |-> IF rows = {} THEN {} ELSE {CHOOSE r \in rows : TRUE}]

Single(rows) ==
    IF Cardinality(rows) = 1
    THEN [error |-> FALSE, data |-> rows]
    ELSE [error |-> TRUE, data |-> {}]

NoToken == [userId |-> 0, username |-> "", admin |-> 0, secret |-> "none", exp |-> 0]

NoBody == [message |-> "none"]

\* jwt.sign(payload, secret, {expiresIn})
Sign(payload, secret, ttl) ==
    [userId |-> payload.userId, username |-> payload.username, admin |-> payload.admin,
     secret |-> secret, exp |-> clock + ttl]

\* jwt.verify(token, secret): signature and expiry
\* A check of the expiry that skips the signature
VerifyAnySecret(tok, secret) == tok # NoToken /\ clock < tok.exp

Verify(tok, secret) == tok # NoToken /\ tok.secret = secret /\ clock < tok.exp

----------------------------------------------------------------------------
(* Tokens *)

generateAccessTokenRefreshSecret(user) ==
    Sign([userId |-> user.userid, username |-> user.username, admin |-> user.admin],
         "REFRESH_TOKEN_SECRET", AccessTtlMinutes)

generateAccessToken(user) ==
    Sign([userId |-> user.userid, username |-> user.username, admin |-> user.admin],
         "JWT_SECRET", AccessTtlMinutes)

RefreshTtlMinutes == 43200 \* expiresIn: '30d'

generateRefreshToken(user) ==
    Sign([userId |-> user.userid, username |-> "", admin |-> 0],
         "REFRESH_TOKEN_SECRET", RefreshTtlMinutes)

\* Tokens a client can put in the Authorization header: none, the one it
\* holds, one signed with the refresh secret, and access tokens for the
\* first user id and for an unused one.
ForgedToken(u, s) ==
    [userId |-> u, username |-> "u1", admin |-> 0, secret |-> s,
     exp |-> clock + AccessTtlMinutes]

PresentedTokens ==
    {NoToken, held, ForgedToken(1, "REFRESH_TOKEN_SECRET"),
     ForgedToken(1, "JWT_SECRET"), ForgedToken(MaxUsers + 1, "JWT_SECRET")}

\* passport.authenticate('jwt'): bearer extraction, jwt.verify with the
\* access secret, then the strategy's verify callback (user lookup).
\* status 200 means the request goes on to the handler with req.user = user.
\* A strategy that trusts the payload of a verified token and skips the lookup
JWTStrategyNoLookup(tok, dbok) ==
    IF ~Verify(tok, "JWT_SECRET")
    THEN [status |-> 401, user |-> {}]
    ELSE [status |-> 200, user |-> {[userid |-> tok.userId]}]

JWTStrategy(tok, dbok) ==
    IF ~Verify(tok, "JWT_SECRET")
    THEN [status |-> 401, user |-> {}]
    ELSE LET q == IF dbok
                  THEN Single({u \in useraccount : u.userid = tok.userId})
                  ELSE [error |-> TRUE, data |-> {}]
         IN  IF q.error THEN [status |-> 500, user |-> {}]
             ELSE IF q.data = {} THEN [status |-> 401, user |-> {}]
             ELSE [status |-> 200, user |-> q.data]

UserIdOf(rows) == IF rows = {} THEN 0 ELSE (CHOOSE u \in rows : TRUE).userid

\* req.params
Req(userId, gameId) == [userId |-> userId, gameId |-> gameId]

NoReq == Req(0, 0)

\* A response sent by a handler: route, status and body, with the request it
\* answers (token, req.user, path parameters) and whether a remote call failed
Resp(route, status, tok, auth, dberr, req, body) ==
    [route |-> route, status |-> status, tok |-> tok,
     user |-> UserIdOf(auth.user), reached |-> TRUE, dberr |-> dberr, at |-> clock,
     req |-> req, body |-> body]

\* The response of a guarded route whose authentication failed: the handler
\* is not called.
Rejected(route, tok, auth) ==
    [route |-> route, status |-> auth.status, tok |-> tok,
     user |-> 0, reached |-> FALSE, dberr |-> auth.status = 500, at |-> clock,
     req |-> NoReq, body |-> NoBody]

Anonymous == [status |-> 200, user |-> {}]

\* passport.authenticate('jwt', { session: false }) ending the request: the
\* route's handler is not called
AuthReject(route, tok, authok) ==
    /\ Cardinality({s \in 1..conc : reg[s].pc = "insert"}) < conc
    /\ JWTStrategy(tok, authok).status # 200
    /\ resp' = Rejected(route, tok, JWTStrategy(tok, authok))
    /\ UNCHANGED <<db, clock, held, cookie, reg, edit, conc, form, run>>

\* passport.authenticate('jwt', { session: false }) calling next(): req.user
Authenticated(tok) == JWTStrategy(tok, TRUE)

\* The server takes a new request only while it has a free slot.
InFlight == {s \in 1..conc : reg[s].pc = "insert"}
EditInFlight == {s \in 1..conc : edit[s].pc \in {"delete", "insert"}}
RunInFlight == IF run.pc \in {"idle", "end"} THEN 0 ELSE 1
Idle == Cardinality(InFlight) + Cardinality(EditInFlight) + RunInFlight < conc

----------------------------------------------------------------------------
(* POST /register *)

IdleReg == [pc |-> "idle", body |-> CHOOSE b \in RegisterBodies : TRUE, status |-> 0]

ExistingEmailWrongColumn(email) == {u \in useraccount : u.username = email}

\* select('email').eq('email', email)
ExistingEmail(email) == {u \in useraccount : u.email = email}

\* step 1: the existing-email check
RegisterCheck(s, body, dbok) ==
    /\ Idle
    /\ reg[s].pc # "insert"
    /\ Cardinality(useraccount) + Cardinality(InFlight) < MaxUsers
    /\ LET existing == ExistingEmail(body.email) IN
       IF ~dbok
       THEN /\ reg' = [reg EXCEPT ![s] = [pc |-> "done", body |-> body, status |-> 500]]
            /\ resp' = Resp("register", 500, NoToken, Anonymous, TRUE, NoReq, NoBody)
       ELSE IF existing # {}
       THEN /\ reg' = [reg EXCEPT ![s] = [pc |-> "done", body |-> body, status |-> 400]]
            /\ resp' = Resp("register", 400, NoToken, Anonymous, FALSE, NoReq, NoBody)
       ELSE /\ reg' = [reg EXCEPT ![s] = [pc |-> "insert", body |-> body, status |-> 0]]
            /\ resp' = resp
    /\ UNCHANGED <<db, clock, held, cookie, edit, conc, form, run>>

NewUserRowUpsert(body) ==
    [userid |-> IF ExistingEmail(body.email) = {}
                THEN Cardinality(useraccount) + 1
                ELSE (CHOOSE u \in ExistingEmail(body.email) : TRUE).userid,
     username |-> body.username,
     email |-> body.email,
     password |-> Hash(body.password),
     admin |-> IF body.admin THEN 1 ELSE 0,
     avatar_url |-> IF body.avatar THEN "url" ELSE "null"]

NewUserRow(body) ==
    [userid |-> Cardinality(useraccount) + 1,
     username |-> body.username,
     email |-> body.email,
     password |-> Hash(body.password),
     admin |-> IF body.admin THEN 1 ELSE 0,
     avatar_url |-> IF body.avatar THEN "url" ELSE "null"]

RegisterBody(inserted) ==
    [accessToken |-> generateAccessToken(inserted),
     refreshToken |-> generateRefreshToken(inserted),
     cookie |-> generateRefreshToken(inserted),
     user |-> [userid |-> inserted.userid, username |-> inserted.username,
               email |-> inserted.email, admin |-> inserted.admin,
               avatar |-> inserted.avatar_url]]

\* steps 2-6: hash, avatar upload, insert, tokens, response
RegisterInsert(s, upok, dbok) ==
    /\ reg[s].pc = "insert"
    /\ LET body == reg[s].body
           inserted == NewUserRow(body) IN
       IF (body.avatar /\ ~upok) \/ ~dbok
       THEN /\ reg' = [reg EXCEPT ![s].pc = "done", ![s].status = 500]
            /\ resp' = Resp("register", 500, NoToken, Anonymous, TRUE, NoReq, NoBody)
            /\ UNCHANGED <<useraccount, held, cookie>>
       ELSE /\ useraccount' = useraccount \cup {inserted}
            /\ reg' = [reg EXCEPT ![s].pc = "done", ![s].status = 201]
            /\ held' = generateAccessToken(inserted)
            /\ cookie' = generateRefreshToken(inserted)
            /\ resp' = Resp("register", 201, NoToken, Anonymous, FALSE, NoReq,
                            RegisterBody(inserted))
    /\ UNCHANGED <<wishTables, collTables, friendTables, clock, edit, conc, form, run, gameTables>>

----------------------------------------------------------------------------
(* POST /login *)

LoginBody(user) ==
    [accessToken |-> generateAccessToken(user),
     refreshToken |-> NoToken,
     cookie |-> generateRefreshToken(user),
     user |-> [userid |-> user.userid, username |-> user.username,
               email |-> user.email, admin |-> user.admin, avatar |-> "null"]]

Login(username, password, dbok) ==
    /\ Idle
    /\ LET users == {u \in useraccount : u.username = username} IN
       IF ~dbok
       THEN \* data is null: users[0] throws, asyncHandler forwards to next
            /\ resp' = Resp("login", 500, NoToken, Anonymous, TRUE, NoReq, NoBody)
            /\ held' = held
            /\ cookie' = cookie
       ELSE IF users = {}
       THEN /\ resp' = Resp("login", 401, NoToken, Anonymous, FALSE, NoReq, NoBody)
            /\ held' = held
            /\ cookie' = cookie
       ELSE \E user \in users : \* users[0]: the select has no order
            IF ~Compare(password, user.password)
            THEN /\ resp' = Resp("login", 401, NoToken, Anonymous, FALSE, NoReq, NoBody)
                 /\ held' = held
                 /\ cookie' = cookie
            ELSE /\ resp' = Resp("login", 200, NoToken, Anonymous, FALSE, NoReq, LoginBody(user))
                 /\ held' = generateAccessToken(user)
                 /\ cookie' = generateRefreshToken(user)
    /\ UNCHANGED <<db, clock, reg, edit, conc, form, run>>

----------------------------------------------------------------------------
(* POST /register and POST /login of the first variant, which answer with *)
(* the useraccount row                                                     *)

TokenTtlMinutes == 60 \* expiresIn: '1h'

generateToken(user) ==
    Sign([userId |-> user.userid, username |-> user.username, admin |-> user.admin],
         "JWT_SECRET", TokenTtlMinutes)

\* { token, user }
TokenAndUser(user) ==
    [accessToken |-> generateToken(user), refreshToken |-> NoToken, cookie |-> NoToken,
     user |-> user]

\* failAt names the remote call that returns an error: the existing-email
\* check, the insert, or the select of the new row (whose error is not read:
\* the row is missing and the answer is 404)
RegisterFirstVariant(body, failAt) ==
    /\ Idle
    /\ Cardinality(useraccount) < MaxUsers
    /\ LET newUser == [NewUserRow(body) EXCEPT !.avatar_url = "null"]
           q == Single({u \in useraccount \cup {newUser} : u.email = body.email}) IN
       IF failAt = 1
       THEN /\ resp' = Resp("register", 500, NoToken, Anonymous, TRUE, NoReq, NoBody)
            /\ UNCHANGED <<useraccount, held>>
       ELSE IF ExistingEmail(body.email) # {}
       THEN /\ resp' = Resp("register", 400, NoToken, Anonymous, FALSE, NoReq, NoBody)
            /\ UNCHANGED <<useraccount, held>>
       ELSE IF failAt = 2
       THEN /\ resp' = Resp("register", 500, NoToken, Anonymous, TRUE, NoReq, NoBody)
            /\ UNCHANGED <<useraccount, held>>
       ELSE /\ useraccount' = useraccount \cup {newUser}
            /\ IF failAt = 3 \/ q.error
               THEN /\ resp' = Resp("register", 404, NoToken, Anonymous, TRUE, NoReq, NoBody)
                    /\ held' = held
               ELSE /\ resp' = Resp("register", 201, NoToken, Anonymous, FALSE, NoReq,
                                    TokenAndUser(newUser))
                    /\ held' = generateToken(newUser)
    /\ UNCHANGED <<wishTables, collTables, friendTables, gameTables, clock, cookie, reg,
                   edit, conc, form, run>>

LoginFirstVariant(username, password, dbok) ==
    /\ Idle
    /\ LET users == {u \in useraccount : u.username = username} IN
       IF ~dbok
       THEN /\ resp' = Resp("login", 400, NoToken, Anonymous, TRUE, NoReq, NoBody)
            /\ held' = held
       ELSE IF users = {}
       THEN /\ resp' = Resp("login", 401, NoToken, Anonymous, FALSE, NoReq, NoBody)
            /\ held' = held
       ELSE \E user \in users : \* users[0]: the select has no order
            IF ~Compare(password, user.password)
            THEN /\ resp' = Resp("login", 401, NoToken, Anonymous, FALSE, NoReq, NoBody)
                 /\ held' = held
            ELSE /\ resp' = Resp("login", 200, NoToken, Anonymous, FALSE, NoReq,
                                 TokenAndUser(user))
                 /\ held' = generateToken(user)
    /\ UNCHANGED <<db, clock, cookie, reg, edit, conc, form, run>>

----------------------------------------------------------------------------
(* POST /api/token/refresh and POST /api/logout *)

\* A refresh token as POST /login signed it for a user at minute 0
IssuedRefreshToken(userId) ==
    [userId |-> userId, username |-> "", admin |-> 0, secret |-> "REFRESH_TOKEN_SECRET",
     exp |-> RefreshTtlMinutes]

\* Values a client can send as the refreshToken cookie: none, the cookie it
\* has, a copy of the token of user 1's login at minute 0, an access token, a
\* refresh token that has expired, and a refresh token of an unknown user
RefreshCookies ==
    {NoToken, cookie, IssuedRefreshToken(1), ForgedToken(1, "JWT_SECRET"),
     [IssuedRefreshToken(1) EXCEPT !.exp = 0], IssuedRefreshToken(MaxUsers + 1)}

Refresh(token, dbok) ==
    /\ Idle
    /\ IF token = NoToken
       THEN resp' = Resp("refresh", 401, token, Anonymous, FALSE, NoReq, NoBody)
       ELSE IF ~Verify(token, "REFRESH_TOKEN_SECRET")
       THEN resp' = Resp("refresh", 403, token, Anonymous, FALSE, NoReq, NoBody)
       ELSE LET q == IF dbok
                     THEN Single({u \in useraccount : u.userid = token.userId})
                     ELSE [error |-> TRUE, data |-> {}] IN
            IF q.error \/ q.data = {}
            THEN resp' = Resp("refresh", 403, token, Anonymous, ~dbok, NoReq, NoBody)
            ELSE LET user == CHOOSE u \in q.data : TRUE IN
                 resp' = Resp("refresh", 200, token, Anonymous, FALSE, NoReq,
                              [accessToken |-> generateAccessToken(user)])
    /\ UNCHANGED <<db, clock, held, cookie, reg, edit, conc, form, run>>

\* res.clearCookie('refreshToken'): the client drops its cookie, the server
\* keeps no record of tokens
Logout ==
    /\ Idle
    /\ cookie' = NoToken
    /\ resp' = Resp("logout", 200, NoToken, Anonymous, FALSE, NoReq, [message |-> "Logged out"])
    /\ UNCHANGED <<db, clock, held, reg, edit, conc, form, run>>

----------------------------------------------------------------------------
(* GET /api/me *)

Me(tok) ==
    /\ Idle
    /\ Authenticated(tok).status = 200
    /\ LET auth == Authenticated(tok)
           u == CHOOSE u \in auth.user : TRUE IN
       resp' = Resp("me", 200, tok, auth, FALSE, NoReq,
                    [user |-> [userid |-> u.userid, username |-> u.username,
                               email |-> u.email, admin |-> u.admin]])
    /\ UNCHANGED <<db, clock, held, cookie, reg, edit, conc, form, run>>

----------------------------------------------------------------------------
(* PUT /api/update-email/:userId *)

UpdateEmail(tok, userId, newEmail, dbok) ==
    /\ Idle
    /\ Authenticated(tok).status = 200
    /\ LET auth == Authenticated(tok) IN
       IF ~dbok
       THEN /\ resp' = Resp("update-email", 500, tok, auth, TRUE, Req(userId, 0), NoBody)
            /\ useraccount' = useraccount
       ELSE /\ useraccount' =
                 { IF u.userid = userId THEN [u EXCEPT !.email = newEmail] ELSE u
                   : u \in useraccount }
            /\ resp' = Resp("update-email", 200, tok, auth, FALSE, Req(userId, 0), NoBody)
    /\ UNCHANGED <<wishTables, collTables, friendTables, clock, held, cookie, reg, edit, conc,
                   form, run,
                   gameTables>>

----------------------------------------------------------------------------
(* PUT /api/update-password/:userId *)

PasswordReq(userId, newPassword) == [userId |-> userId, newPassword |-> newPassword]

UpdatePassword(tok, userId, newPassword, dbok) ==
    /\ Idle
    /\ Authenticated(tok).status = 200
    /\ LET auth == Authenticated(tok)
           hashedPassword == Hash(newPassword)
           req == PasswordReq(userId, newPassword) IN
       IF ~dbok
       THEN /\ resp' = Resp("update-password", 500, tok, auth, TRUE, req, NoBody)
            /\ useraccount' = useraccount
       ELSE /\ useraccount' =
                 { IF u.userid = userId THEN [u EXCEPT !.password = hashedPassword] ELSE u
                   : u \in useraccount }
            /\ resp' = Resp("update-password", 200, tok, auth, FALSE, req, NoBody)
    /\ UNCHANGED <<wishTables, collTables, friendTables, clock, held, cookie, reg, edit, conc,
                   form, run,
                   gameTables>>

----------------------------------------------------------------------------
(* Wishlist handlers *)

\* The same query with the two path parameters taken in the wrong order
WishlistRowsSwapped(userId, gameId) ==
    {w \in vgwishlist : w.userid = gameId /\ w.gameid = userId}

\* from('vgwishlist') ... .eq('userid', userId).eq('gameid', gameId)
WishlistRows(userId, gameId) ==
    {w \in vgwishlist : w.userid = userId /\ w.gameid = gameId}

\* supabase delete() / update() without select(): data is null
WriteData == [isNull |-> TRUE]

\* GET /api/check-wishlist/:userId/:gameId
CheckWishlist(tok, userId, gameId, dbok) ==
    /\ Idle
    /\ Authenticated(tok).status = 200
    /\ LET auth == Authenticated(tok) IN
       IF ~dbok
       THEN resp' = Resp("check-wishlist", 500, tok, auth, TRUE, Req(userId, gameId), NoBody)
       ELSE resp' = Resp("check-wishlist", 200, tok, auth, FALSE, Req(userId, gameId),
                         [hasWishlist |-> WishlistRows(userId, gameId) # {}])
    /\ UNCHANGED <<db, clock, held, cookie, reg, edit, conc, form, run>>

\* POST /api/add-game-wishlist/:userId/:gameId; failAt names the remote call
\* that returns an error (0: none)
AddGameWishlist(tok, userId, gameId, consoleIds, failAt) ==
    /\ Idle
    /\ wlseq < MaxWishSeq
    /\ Authenticated(tok).status = 200
    /\ LET auth == Authenticated(tok)
           wl == [wishlistid |-> wlseq + 1, userid |-> userId, gameid |-> gameId]
           rows == {[wishlistid |-> wl.wishlistid, consoleid |-> c] : c \in consoleIds} IN
       IF consoleIds = {}
       THEN /\ resp' = Resp("add-game-wishlist", 400, tok, auth, FALSE, Req(userId, gameId), NoBody)
            /\ UNCHANGED wishTables
       ELSE IF failAt = 1
       THEN /\ resp' = Resp("add-game-wishlist", 500, tok, auth, TRUE, Req(userId, gameId), NoBody)
            /\ UNCHANGED wishTables
       ELSE IF failAt = 2
       THEN /\ vgwishlist' = vgwishlist \cup {wl}
            /\ wlseq' = wlseq + 1
            /\ resp' = Resp("add-game-wishlist", 500, tok, auth, TRUE, Req(userId, gameId), NoBody)
            /\ UNCHANGED vgwishlist_console
       ELSE /\ vgwishlist' = vgwishlist \cup {wl}
            /\ wlseq' = wlseq + 1
            /\ vgwishlist_console' = vgwishlist_console \cup rows
            /\ resp' = Resp("add-game-wishlist", 200, tok, auth, FALSE, Req(userId, gameId), NoBody)
    /\ UNCHANGED <<useraccount, collTables, friendTables, clock, held, cookie, reg, edit, conc,
                   form, run,
                   gameTables>>

\* DELETE /api/removewishlist/:userId/:gameId
RemoveWishlist(tok, userId, gameId, failAt) ==
    /\ Idle
    /\ Authenticated(tok).status = 200
    /\ LET auth == Authenticated(tok)
           existingGame == WishlistRows(userId, gameId)
           removedGame == WriteData IN
       IF failAt = 1
       THEN /\ resp' = Resp("removewishlist", 500, tok, auth, TRUE, Req(userId, gameId), NoBody)
            /\ UNCHANGED vgwishlist
       ELSE IF existingGame = {}
       THEN /\ resp' = Resp("removewishlist", 404, tok, auth, FALSE, Req(userId, gameId), NoBody)
            /\ UNCHANGED vgwishlist
       ELSE IF failAt = 2
       THEN /\ resp' = Resp("removewishlist", 500, tok, auth, TRUE, Req(userId, gameId), NoBody)
            /\ UNCHANGED vgwishlist
       ELSE /\ vgwishlist' = vgwishlist \ WishlistRows(userId, gameId)
            /\ resp' = Resp("removewishlist",
                            IF removedGame.isNull THEN 200 ELSE 404, tok, auth, FALSE,
                            Req(userId, gameId), NoBody)
    /\ UNCHANGED <<useraccount, vgwishlist_console, wlseq, collTables, friendTables,
                   clock, held, cookie, reg, edit, conc, form, run, gameTables>>

\* POST /api/add-to-wishlist/:userId/:gameId (legacy variant)
AddToWishlist(tok, userId, gameId, failAt) ==
    /\ Idle
    /\ wlseq < MaxWishSeq
    /\ Authenticated(tok).status = 200
    /\ LET auth == Authenticated(tok)
           existingWishlist == WishlistRows(userId, gameId) IN
       IF failAt = 1
       THEN /\ resp' = Resp("add-to-wishlist", 500, tok, auth, TRUE, Req(userId, gameId), NoBody)
            /\ UNCHANGED <<vgwishlist, wlseq>>
       ELSE IF existingWishlist # {}
       THEN /\ resp' = Resp("add-to-wishlist", 400, tok, auth, FALSE, Req(userId, gameId), NoBody)
            /\ UNCHANGED <<vgwishlist, wlseq>>
       ELSE IF failAt = 2
       THEN /\ resp' = Resp("add-to-wishlist", 500, tok, auth, TRUE, Req(userId, gameId), NoBody)
            /\ UNCHANGED <<vgwishlist, wlseq>>
       ELSE /\ vgwishlist' = vgwishlist \cup
                 {[wishlistid |-> wlseq + 1, userid |-> userId, gameid |-> gameId]}
            /\ wlseq' = wlseq + 1
            /\ resp' = Resp("add-to-wishlist", 200, tok, auth, FALSE, Req(userId, gameId), NoBody)
    /\ UNCHANGED <<useraccount, vgwishlist_console, collTables, friendTables,
                   clock, held, cookie, reg, edit, conc, form, run, gameTables>>

----------------------------------------------------------------------------
(* PUT /api/edit-wishlist/:userId/:gameId, split at its awaits *)

EditConsoleSets == {{}, {1}, {2}}

IdleEdit ==
    [pc |-> "idle", tok |-> NoToken, userId |-> 0, gameId |-> 0, consoleIds |-> {},
     wishlistid |-> 0, status |-> 0]

\* 1) fetch the wishlistid of the pair with .single(): 404 on an error or no row
EditFetch(s, tok, userId, gameId, consoleIds, dbok) ==
    /\ Idle
    /\ edit[s].pc \in {"idle", "done"}
    /\ Authenticated(tok).status = 200
    /\ LET auth == Authenticated(tok)
           q == IF dbok THEN Single(WishlistRows(userId, gameId))
                ELSE [error |-> TRUE, data |-> {}]
           r == [pc |-> "delete", tok |-> tok, userId |-> userId, gameId |-> gameId,
                 consoleIds |-> consoleIds, wishlistid |-> 0, status |-> 0] IN
       IF q.error \/ q.data = {}
       THEN /\ edit' = [edit EXCEPT ![s] = [r EXCEPT !.pc = "done", !.status = 404]]
            /\ resp' = Resp("edit-wishlist", 404, tok, auth, ~dbok, Req(userId, gameId), NoBody)
       ELSE /\ edit' = [edit EXCEPT ![s] =
                          [r EXCEPT !.wishlistid = (CHOOSE w \in q.data : TRUE).wishlistid]]
            /\ resp' = resp
    /\ UNCHANGED <<db, clock, held, cookie, reg, conc, form, run>>

\* 2) delete the entry's vgwishlist_console rows; with no consoleIds the
\* handler skips the insert and answers 200
EditDelete(s, dbok) ==
    /\ edit[s].pc = "delete"
    /\ LET r == edit[s]
           auth == Authenticated(r.tok)
           req == Req(r.userId, r.gameId) IN
       IF ~dbok
       THEN /\ edit' = [edit EXCEPT ![s] = [r EXCEPT !.pc = "done", !.status = 500]]
            /\ resp' = Resp("edit-wishlist", 500, r.tok, auth, TRUE, req, NoBody)
            /\ UNCHANGED vgwishlist_console
       ELSE /\ vgwishlist_console' =
                 {c \in vgwishlist_console : c.wishlistid # r.wishlistid}
            /\ IF r.consoleIds = {}
               THEN /\ edit' = [edit EXCEPT ![s] = [r EXCEPT !.pc = "done", !.status = 200]]
                    /\ resp' = Resp("edit-wishlist", 200, r.tok, auth, FALSE, req, NoBody)
               ELSE /\ edit' = [edit EXCEPT ![s] = [r EXCEPT !.pc = "insert"]]
                    /\ resp' = resp
    /\ UNCHANGED <<useraccount, vgwishlist, wlseq, collTables, friendTables, clock, held,
                   cookie, reg, conc, form, run, gameTables>>

\* 3) insert one vgwishlist_console row per requested console
EditInsert(s, dbok) ==
    /\ edit[s].pc = "insert"
    /\ LET r == edit[s]
           auth == Authenticated(r.tok)
           req == Req(r.userId, r.gameId)
           rows == {[wishlistid |-> r.wishlistid, consoleid |-> cid] : cid \in r.consoleIds} IN
       IF ~dbok
       THEN /\ edit' = [edit EXCEPT ![s] = [r EXCEPT !.pc = "done", !.status = 500]]
            /\ resp' = Resp("edit-wishlist", 500, r.tok, auth, TRUE, req, NoBody)
            /\ UNCHANGED vgwishlist_console
       ELSE /\ vgwishlist_console' = vgwishlist_console \cup rows
            /\ edit' = [edit EXCEPT ![s] = [r EXCEPT !.pc = "done", !.status = 200]]
            /\ resp' = Resp("edit-wishlist", 200, r.tok, auth, FALSE, req, NoBody)
    /\ UNCHANGED <<useraccount, vgwishlist, wlseq, collTables, friendTables, clock, held,
                   cookie, reg, conc, form, run, gameTables>>

----------------------------------------------------------------------------
(* Collection handlers *)

\* Array.prototype.join(sep) on an array of strings; a string is a sequence
\* of characters
RECURSIVE Join(_, _)
Join(arr, sep) ==
    IF Len(arr) = 0 THEN <<>>
    ELSE IF Len(arr) = 1 THEN arr[1]
    ELSE arr[1] \o sep \o Join(Tail(arr), sep)

CommaSpace == <<",", " ">>

\* A checkboxes field the request leaves out: no array of strings
Undefined == << <<"undefined">> >>

\* The null a column without a value holds: no string of characters
Null == <<"null">>

\* Array.isArray
IsArray(x) == x # Undefined

\* Request bodies of POST /api/add-game-details: the fields the handler
\* converts (checkboxes, spoiler), rating and consoleIds; the other fields
\* are stored as sent
DetailsBodies ==
    { [checkboxes |-> << <<"a">>, <<"b">> >>, spoiler |-> TRUE, rating |-> 5, consoleIds |-> {1}],
      [checkboxes |-> << <<"a">> >>, spoiler |-> FALSE, rating |-> 3, consoleIds |-> {}] }

\* A body with consoles
ReportsDetails == CHOOSE d \in DetailsBodies : d.consoleIds # {}

\* insertGameDetailsAndCollection: gamedetails, then vgcollection, then
\* vgcollection_console; failAt names the insert that returns an error.
\* The ids come from the tables' serials: one counter stands for both.
AddGameDetails(tok, userId, gameId, data, failAt) ==
    /\ Idle
    /\ colseq < MaxCollSeq
    /\ Authenticated(tok).status = 200
    /\ LET auth == Authenticated(tok)
           gd == [gamedetailsid |-> colseq + 1,
                  condition |-> IF IsArray(data.checkboxes)
                                THEN Join(data.checkboxes, CommaSpace)
                                ELSE Null,
                  spoiler |-> IF data.spoiler THEN 1 ELSE 0,
                  rating |-> data.rating]
           vc == [collectionid |-> colseq + 1, userid |-> userId, gameid |-> gameId,
                  gamedetailsid |-> gd.gamedetailsid]
           rows == {[collectionid |-> vc.collectionid, consoleid |-> c] : c \in data.consoleIds}
           req == Req(userId, gameId) IN
       /\ colseq' = colseq + 1
       /\ IF failAt = 1
          THEN /\ resp' = Resp("add-game-details", 500, tok, auth, TRUE, req, NoBody)
               /\ UNCHANGED <<gamedetails, vgcollection, vgcollection_console>>
          ELSE IF failAt = 2
          THEN /\ gamedetails' = gamedetails \cup {gd}
               /\ resp' = Resp("add-game-details", 500, tok, auth, TRUE, req, NoBody)
               /\ UNCHANGED <<vgcollection, vgcollection_console>>
          ELSE IF failAt = 3 /\ data.consoleIds # {}
          THEN /\ gamedetails' = gamedetails \cup {gd}
               /\ vgcollection' = vgcollection \cup {vc}
               /\ resp' = Resp("add-game-details", 500, tok, auth, TRUE, req, NoBody)
               /\ UNCHANGED vgcollection_console
          ELSE /\ gamedetails' = gamedetails \cup {gd}
               /\ vgcollection' = vgcollection \cup {vc}
               /\ vgcollection_console' = vgcollection_console \cup rows
               /\ resp' = Resp("add-game-details", 200, tok, auth, FALSE, req, NoBody)
    /\ UNCHANGED <<useraccount, wishTables, friendTables, clock, held, cookie, reg, edit, conc,
                   form, run,
                   gameTables>>

\* from('vgcollection') ... .eq('userid', userId).eq('gameid', gameId)
CollectionRows(userId, gameId) ==
    {c \in vgcollection : c.userid = userId /\ c.gameid = gameId}

\* DELETE /api/removecollection/:userId/:gameId, with removeGameFromCollection
\* and removeGameDetails; failAt names the remote call that returns an error
RemoveCollection(tok, userId, gameId, failAt) ==
    /\ Idle
    /\ Authenticated(tok).status = 200
    /\ LET auth == Authenticated(tok)
           q == IF failAt = 1 THEN [error |-> TRUE, data |-> {}]
                ELSE Single(CollectionRows(userId, gameId))
           req == Req(userId, gameId) IN
       IF q.error
       THEN /\ resp' = Resp("removecollection", 500, tok, auth, TRUE, req, NoBody)
            /\ UNCHANGED <<gamedetails, vgcollection>>
       ELSE IF q.data = {}
       THEN /\ resp' = Resp("removecollection", 404, tok, auth, FALSE, req, NoBody)
            /\ UNCHANGED <<gamedetails, vgcollection>>
       ELSE LET collectionData == CHOOSE c \in q.data : TRUE IN
            IF ~(collectionData.collectionid # 0 /\ collectionData.gamedetailsid # 0)
            THEN /\ resp' = Resp("removecollection", 404, tok, auth, FALSE, req, NoBody)
                 /\ UNCHANGED <<gamedetails, vgcollection>>
            ELSE IF failAt = 2
            THEN /\ resp' = Resp("removecollection", 500, tok, auth, TRUE, req, NoBody)
                 /\ UNCHANGED <<gamedetails, vgcollection>>
            ELSE IF failAt = 3
            THEN /\ vgcollection' = vgcollection \ CollectionRows(userId, gameId)
                 /\ resp' = Resp("removecollection", 500, tok, auth, TRUE, req, NoBody)
                 /\ UNCHANGED gamedetails
            ELSE /\ vgcollection' = vgcollection \ CollectionRows(userId, gameId)
                 /\ gamedetails' = {d \in gamedetails :
                                      d.gamedetailsid # collectionData.gamedetailsid}
                 /\ resp' = Resp("removecollection", 200, tok, auth, FALSE, req, NoBody)
    /\ UNCHANGED <<useraccount, wishTables, vgcollection_console, colseq, friendTables,
                   clock, held, cookie, reg, edit, conc, form, run, gameTables>>

\* String.prototype.split(',')
RECURSIVE Split(_)
Split(str) ==
    IF \A i \in 1..Len(str) : str[i] # ","
    THEN <<str>>
    ELSE LET i == CHOOSE k \in 1..Len(str) :
                     str[k] = "," /\ \A j \in 1..(k - 1) : str[j] # "," IN
         <<SubSeq(str, 1, i - 1)>> \o Split(SubSeq(str, i + 1, Len(str)))

\* A trim that leaves the string as it is
TrimNothing(str) == str

\* String.prototype.trim
RECURSIVE Trim(_)
Trim(str) ==
    IF str = <<>> THEN str
    ELSE IF Head(str) = " " THEN Trim(Tail(str))
    ELSE IF str[Len(str)] = " " THEN Trim(SubSeq(str, 1, Len(str) - 1))
    ELSE str

\* condition ? condition.split(',').map((c) => c.trim()) : []
conditionArr(condition) ==
    IF condition = Null \/ condition = <<>> THEN <<>>
    ELSE [i \in 1..Len(Split(condition)) |-> Trim(Split(condition)[i])]

\* GET /api/get-game-details/:userId/:gameId: the collection row with its
\* gamedetails; a row without details makes data.gamedetails.condition throw
GetGameDetails(tok, userId, gameId, dbok) ==
    /\ Idle
    /\ Authenticated(tok).status = 200
    /\ LET auth == Authenticated(tok)
           req == Req(userId, gameId)
           q == IF dbok THEN Single(CollectionRows(userId, gameId))
                ELSE [error |-> TRUE, data |-> {}] IN
       IF q.error
       THEN resp' = Resp("get-game-details", 500, tok, auth, TRUE, req, NoBody)
       ELSE \E c \in q.data :
            LET details == {d \in gamedetails : d.gamedetailsid = c.gamedetailsid} IN
            IF details = {}
            THEN resp' = Resp("get-game-details", 500, tok, auth, FALSE, req, NoBody)
            ELSE \E d \in details :
                    resp' = Resp("get-game-details", 200, tok, auth, FALSE, req,
                                 [gamedetails |-> [d EXCEPT !.condition = conditionArr(@)]])
    /\ UNCHANGED <<db, clock, held, cookie, reg, edit, conc, form, run>>

----------------------------------------------------------------------------
(* POST /add-game-to-database *)

GameNames == {"g1", "g2"}
ConsoleLists == {{1}, {1, 2}}
ConsoleNames == {"c1", "c2"}

GameReq(name, consoles) == [name |-> name, consoles |-> consoles]

\* A first insert that leaves no row behind
InsertGameinfoNothing(gameid, Name) == gameinfo

\* from('gameinfo').insert([{ name: Name, coverart }]).select('gameid').single()
InsertGameinfo(gameid, Name) ==
    gameinfo \cup {[gameid |-> gameid, name |-> Name]}

\* Current variant: insert into gameinfo, then one gameinfo_console row per
\* console; failAt names the insert that returns an error.  The gameinfo row
\* is written before the links are tried and nothing removes it afterwards.
AddGameToDatabase(tok, Name, consoleIds, hasCover, failAt) ==
    /\ Idle
    /\ giseq < MaxGameSeq
    /\ Authenticated(tok).status = 200
    /\ LET auth == Authenticated(tok)
           gameid == giseq + 1
           links == {[gameid |-> gameid, consoleid |-> cid] : cid \in consoleIds}
           req == GameReq(Name, consoleIds) IN
       IF ~hasCover
       THEN /\ resp' = Resp("add-game-to-database", 400, tok, auth, FALSE, req, NoBody)
            /\ UNCHANGED gameTables
       ELSE /\ giseq' = giseq + 1
            /\ IF failAt = 1
               THEN /\ resp' = Resp("add-game-to-database", 500, tok, auth, TRUE, req,
                                    [error |-> "Error adding game."])
                    /\ UNCHANGED <<gameinfo, gameinfo_console>>
               ELSE IF failAt = 2
               THEN /\ gameinfo' = InsertGameinfo(gameid, Name)
                    /\ resp' = Resp("add-game-to-database", 500, tok, auth, TRUE, req,
                                    [error |-> "Game added but failed to link consoles."])
                    /\ UNCHANGED gameinfo_console
               ELSE /\ gameinfo' = InsertGameinfo(gameid, Name)
                    /\ gameinfo_console' = gameinfo_console \cup links
                    /\ resp' = Resp("add-game-to-database", 200, tok, auth, FALSE, req,
                                    [message |-> "Game added successfully."])
    /\ UNCHANGED <<useraccount, wishTables, collTables, friendTables, clock, held, cookie, reg,
                   edit, conc, form, run>>

\* The same query with the two columns compared to the wrong fields
ExistingGamesSwapped(Name, Console) ==
    {g \in gameinfo : g.name = Console /\ g.console = Name}

\* from('gameinfo').select('gameid').eq('name', Name).eq('console', Console)
ExistingGames(Name, Console) ==
    {g \in gameinfo : g.name = Name /\ g.console = Console}

\* Legacy variant, gameinfo with a console column: look for a row with the
\* name and console, then insert; failAt names the call that returns an error
AddGameToDatabaseLegacy(tok, Name, Console, hasCover, failAt) ==
    /\ Idle
    /\ Authenticated(tok).status = 200
    /\ LET auth == Authenticated(tok)
           req == GameReq(Name, Console) IN
       IF failAt = 1
       THEN /\ resp' = Resp("add-game-to-database", 500, tok, auth, TRUE, req, NoBody)
            /\ UNCHANGED gameTables
       ELSE IF ExistingGames(Name, Console) # {}
       THEN /\ resp' = Resp("add-game-to-database", 420, tok, auth, FALSE, req, NoBody)
            /\ UNCHANGED gameTables
       ELSE IF ~hasCover
       THEN /\ resp' = Resp("add-game-to-database", 400, tok, auth, FALSE, req, NoBody)
            /\ UNCHANGED gameTables
       ELSE IF failAt = 2
       THEN /\ giseq < MaxGameSeq
            /\ giseq' = giseq + 1
            /\ resp' = Resp("add-game-to-database", 500, tok, auth, TRUE, req, NoBody)
            /\ UNCHANGED <<gameinfo, gameinfo_console>>
       ELSE /\ giseq < MaxGameSeq
            /\ giseq' = giseq + 1
            /\ gameinfo' = gameinfo \cup
                 {[gameid |-> giseq + 1, name |-> Name, console |-> Console]}
            /\ resp' = Resp("add-game-to-database", 200, tok, auth, FALSE, req, NoBody)
            /\ UNCHANGED gameinfo_console
    /\ UNCHANGED <<useraccount, wishTables, collTables, friendTables, clock, held, cookie, reg,
                   edit, conc, form, run>>

----------------------------------------------------------------------------
(* GET /api/reports/:reportType *)

ReportTypes == {"TotalUsers", "TotalCollections", "TotalWishlists"}

ReportCountWrongTable(reportType) ==
    IF reportType = "TotalUsers" THEN Cardinality(useraccount)
    ELSE IF reportType = "TotalCollections" THEN Cardinality(vgcollection)
    ELSE Cardinality(vgcollection)

\* data.length of the select on the report's table
ReportCount(reportType) ==
    IF reportType = "TotalUsers" THEN Cardinality(useraccount)
    ELSE IF reportType = "TotalCollections" THEN Cardinality(vgcollection)
    ELSE Cardinality(vgwishlist)

\* reportTypes: the types named in the path; failed: the types whose select
\* returns an error
Reports(tok, reportTypes, failed) ==
    /\ Idle
    /\ Authenticated(tok).status = 200
    /\ LET auth == Authenticated(tok) IN
       IF failed \cap reportTypes # {}
       THEN resp' = Resp("reports", 500, tok, auth, TRUE, NoReq, NoBody)
       ELSE resp' = Resp("reports", 200, tok, auth, FALSE, NoReq,
                         [results |-> [t \in reportTypes |-> [count |-> ReportCount(t)]]])
    /\ UNCHANGED <<db, clock, held, cookie, reg, edit, conc, form, run>>

\* const gameCount = {}; rows.forEach(({ gameid }) => gameCount[gameid] = ... + 1)
GameCount(rows) ==
    [g \in {r.gameid : r \in rows} |-> Cardinality({r \in rows : r.gameid = g})]

\* The loop "for (const gameid in gameCount)" from the key k on: an object
\* enumerates integer keys in ascending order; a later key replaces the
\* current one only when its count is greater or equal (last key on ties)
RECURSIVE MostLoopLastKey(_, _, _, _)
MostLoopLastKey(gameCount, k, id, maxCount) ==
    IF \A g \in DOMAIN gameCount : g < k THEN [id |-> id, maxCount |-> maxCount]
    ELSE IF k \in DOMAIN gameCount /\ gameCount[k] >= maxCount
    THEN MostLoopLastKey(gameCount, k + 1, k, gameCount[k])
    ELSE MostLoopLastKey(gameCount, k + 1, id, maxCount)

\* The loop "for (const gameid in gameCount)" from the key k on: an object
\* enumerates integer keys in ascending order; id 0 stands for null
RECURSIVE MostLoop(_, _, _, _)
MostLoop(gameCount, k, id, maxCount) ==
    IF \A g \in DOMAIN gameCount : g < k THEN [id |-> id, maxCount |-> maxCount]
    ELSE IF k \in DOMAIN gameCount /\ gameCount[k] > maxCount
    THEN MostLoop(gameCount, k + 1, k, gameCount[k])
    ELSE MostLoop(gameCount, k + 1, id, maxCount)

GameReportTypes == {"MostCollectedGame", "MostWantedGame", "HighestReviewedGame"}

NotAvailable == [name |-> "N/A", rating |-> "N/A"]

\* from('gamedetails').select('rating, gamedetailsid')
\*   .order('rating', { ascending: false }).limit(1): the rows that can come
\* first; the order among equal ratings is the database's
HighestRatingData ==
    {d \in gamedetails : \A e \in gamedetails : e.rating <= d.rating}

\* Response of a report request naming one type
ReportResult(tok, reportType, status, result) ==
    Resp("reports", status, tok, Authenticated(tok), status = 500, NoReq,
         IF status = 200 THEN [results |-> [t \in {reportType} |-> result]] ELSE NoBody)

\* The MostCollectedGame and MostWantedGame branches over the rows of their
\* table; failAt names the select that returns an error
MostGame(tok, reportType, rows, failAt) ==
    LET most == MostLoop(GameCount(rows), 1, 0, 0)
        q == Single({g \in gameinfo : g.gameid = most.id}) IN
    IF failAt = 1
    THEN resp' = ReportResult(tok, reportType, 500, NoBody)
    ELSE IF most.id = 0
    THEN resp' = ReportResult(tok, reportType, 200, [count |-> 0])
    ELSE IF failAt = 2 \/ q.error
    THEN resp' = ReportResult(tok, reportType, 500, NoBody)
    ELSE \E g \in q.data :
            resp' = ReportResult(tok, reportType, 200,
                                 [gameid |-> g.gameid, name |-> g.name,
                                  count |-> most.maxCount])

\* The HighestReviewedGame branch; top is highestRatingData[0] and coll is
\* gameIdData[0], each the row the database puts first
HighestReviewedGame(tok, failAt) ==
    LET t == "HighestReviewedGame" IN
    IF failAt = 1
    THEN resp' = ReportResult(tok, t, 500, NoBody)
    ELSE IF HighestRatingData = {}
    THEN resp' = ReportResult(tok, t, 200, NotAvailable)
    ELSE \E top \in HighestRatingData :
         LET gameIdData == {c \in vgcollection : c.gamedetailsid = top.gamedetailsid} IN
         IF failAt = 2
         THEN resp' = ReportResult(tok, t, 500, NoBody)
         ELSE IF gameIdData = {}
         THEN resp' = ReportResult(tok, t, 200, NotAvailable)
         ELSE \E coll \in gameIdData :
              LET q == Single({g \in gameinfo : g.gameid = coll.gameid}) IN
              IF failAt = 3 \/ q.error
              THEN resp' = ReportResult(tok, t, 500, NoBody)
              ELSE \E g \in q.data :
                      resp' = ReportResult(tok, t, 200,
                                           [gameid |-> g.gameid, name |-> g.name,
                                            rating |-> top.rating])

\* GET /api/reports/:reportType for one of the reports that name a game
GameReports(tok, reportType, failAt) ==
    /\ Idle
    /\ Authenticated(tok).status = 200
    /\ IF reportType = "MostCollectedGame" THEN MostGame(tok, reportType, vgcollection, failAt)
       ELSE IF reportType = "MostWantedGame" THEN MostGame(tok, reportType, vgwishlist, failAt)
       ELSE HighestReviewedGame(tok, failAt)
    /\ UNCHANGED <<db, clock, held, cookie, reg, edit, conc, form, run>>


----------------------------------------------------------------------------
(* Handlers statement by statement: add-game-to-database, edit-game-details *)
(* and reports, with the responses each request sends                       *)

ReportPaths ==
    { <<"TotalUsers">>, <<"TotalWishlists", "TotalCollections">>,
      <<"TotalUsers", "TotalCollections", "TotalWishlists">>, <<"Unknown">> }

\* No request: sent counts the res.json calls of the request, forwarded
\* tells that asyncHandler passed a rejection to next
IdleRun ==
    [route |-> "none", pc |-> "idle", sent |-> 0, forwarded |-> FALSE, tok |-> NoToken,
     Name |-> "", consoleIds |-> {}, gameid |-> 0, userId |-> 0, gameId |-> 0,
     data |-> ReportsDetails, collectionid |-> 0, gamedetailsid |-> 0,
     todo |-> <<>>, results |-> {}]

\* res.status(..).json(..)
Send(r) == [r EXCEPT !.sent = @ + 1]

\* return, or the end of the handler
Return(r) == [r EXCEPT !.pc = "end"]

\* asyncHandler: Promise.resolve(fn(req, res, next)).catch(next)
asyncHandler(r) == [r EXCEPT !.forwarded = TRUE, !.pc = "end"]

RunResp(r, status, dberr) ==
    Resp(r.route, status, r.tok, Authenticated(r.tok), dberr, NoReq, NoBody)

\* POST /add-game-to-database up to its first await: JSON.parse(Consoles)
\* throws on a malformed string, a request without CoverArt is answered 400
AddGameStart(tok, Name, consoleIds, hasCover, parses) ==
    /\ Idle
    /\ run.pc \in {"idle", "end"}
    /\ giseq < MaxGameSeq
    /\ Authenticated(tok).status = 200
    /\ LET r == [IdleRun EXCEPT !.route = "add-game-to-database", !.tok = tok,
                                !.Name = Name, !.consoleIds = consoleIds] IN
       IF ~parses
       THEN /\ run' = asyncHandler(r)
            /\ resp' = RunResp(r, 500, FALSE)
       ELSE IF ~hasCover
       THEN /\ run' = Return(Send(r))
            /\ resp' = RunResp(r, 400, FALSE)
       ELSE /\ run' = [r EXCEPT !.pc = "insert"]
            /\ resp' = resp
    /\ UNCHANGED <<db, clock, held, cookie, reg, edit, conc, form>>

\* The insert into gameinfo whose error branch answers without returning
AddGameInsertNoReturn(dbok) ==
    /\ run.route = "add-game-to-database"
    /\ run.pc = "insert"
    /\ giseq' = giseq + 1
    /\ IF ~dbok
       THEN /\ run' = [Send(run) EXCEPT !.pc = "link"]
            /\ resp' = RunResp(run, 500, TRUE)
            /\ UNCHANGED gameinfo
       ELSE /\ gameinfo' = InsertGameinfo(giseq + 1, run.Name)
            /\ run' = [run EXCEPT !.pc = "link", !.gameid = giseq + 1]
            /\ resp' = resp
    /\ UNCHANGED <<useraccount, wishTables, collTables, friendTables, gameinfo_console,
                   clock, held, cookie, reg, edit, conc, form>>

\* 1) insert into gameinfo; an error is answered 500 and the handler returns
AddGameInsert(dbok) ==
    /\ run.route = "add-game-to-database"
    /\ run.pc = "insert"
    /\ giseq' = giseq + 1
    /\ IF ~dbok
       THEN /\ run' = Return(Send(run))
            /\ resp' = RunResp(run, 500, TRUE)
            /\ UNCHANGED gameinfo
       ELSE /\ gameinfo' = InsertGameinfo(giseq + 1, run.Name)
            /\ run' = [run EXCEPT !.pc = "link", !.gameid = giseq + 1]
            /\ resp' = resp
    /\ UNCHANGED <<useraccount, wishTables, collTables, friendTables, gameinfo_console,
                   clock, held, cookie, reg, edit, conc, form>>

\* 2) insert into gameinfo_console, then the answer
AddGameLink(dbok) ==
    /\ run.route = "add-game-to-database"
    /\ run.pc = "link"
    /\ LET links == {[gameid |-> run.gameid, consoleid |-> cid] : cid \in run.consoleIds} IN
       IF ~dbok
       THEN /\ run' = Return(Send(run))
            /\ resp' = RunResp(run, 500, TRUE)
            /\ UNCHANGED gameinfo_console
       ELSE /\ gameinfo_console' = gameinfo_console \cup links
            /\ run' = Return(Send(run))
            /\ resp' = RunResp(run, 200, FALSE)
    /\ UNCHANGED <<useraccount, wishTables, collTables, friendTables, gameinfo, giseq,
                   clock, held, cookie, reg, edit, conc, form>>

Comma == <<",">>

\* PUT /api/edit-game-details/:userId/:gameId up to the first await of
\* editGameDetails
EditGameDetailsStart(tok, userId, gameId, gameDetails) ==
    /\ Idle
    /\ run.pc \in {"idle", "end"}
    /\ Authenticated(tok).status = 200
    /\ run' = [IdleRun EXCEPT !.route = "edit-game-details", !.tok = tok, !.pc = "fetch",
                              !.userId = userId, !.gameId = gameId, !.data = gameDetails]
    /\ UNCHANGED <<db, clock, held, cookie, reg, edit, conc, form, resp>>

\* editGameDetails 1): the vgcollection record; without it the function
\* returns false and the handler answers 500
EditGameDetailsFetch(dbok) ==
    /\ run.route = "edit-game-details"
    /\ run.pc = "fetch"
    /\ LET vgcol == IF dbok THEN Single(CollectionRows(run.userId, run.gameId))
                    ELSE [error |-> TRUE, data |-> {}] IN
       IF vgcol.error \/ vgcol.data = {}
       THEN /\ run' = Return(Send(run))
            /\ resp' = RunResp(run, 500, ~dbok)
       ELSE \E c \in vgcol.data :
               /\ run' = [run EXCEPT !.pc = "update", !.collectionid = c.collectionid,
                                     !.gamedetailsid = c.gamedetailsid]
               /\ resp' = resp
    /\ UNCHANGED <<db, clock, held, cookie, reg, edit, conc, form>>

\* editGameDetails 2): update the gamedetails row; checkboxes are joined
\* with ','
EditGameDetailsUpdate(dbok) ==
    /\ run.route = "edit-game-details"
    /\ run.pc = "update"
    /\ IF ~dbok
       THEN /\ run' = Return(Send(run))
            /\ resp' = RunResp(run, 500, TRUE)
            /\ UNCHANGED gamedetails
       ELSE /\ gamedetails' =
                 { IF d.gamedetailsid = run.gamedetailsid
                   THEN [d EXCEPT !.condition = IF IsArray(run.data.checkboxes)
                                                THEN Join(run.data.checkboxes, Comma)
                                                ELSE @,
                                  !.spoiler = IF run.data.spoiler THEN 1 ELSE 0,
                                  !.rating = run.data.rating]
                   ELSE d : d \in gamedetails }
            /\ run' = [run EXCEPT !.pc = "wipe"]
            /\ resp' = resp
    /\ UNCHANGED <<useraccount, wishTables, vgcollection, vgcollection_console, colseq,
                   friendTables, gameTables, clock, held, cookie, reg, edit, conc, form>>

\* editGameDetails 3): delete the old vgcollection_console rows; with no
\* consoleIds the function returns true and the handler answers 200
EditGameDetailsWipe(dbok) ==
    /\ run.route = "edit-game-details"
    /\ run.pc = "wipe"
    /\ IF ~dbok
       THEN /\ run' = Return(Send(run))
            /\ resp' = RunResp(run, 500, TRUE)
            /\ UNCHANGED vgcollection_console
       ELSE /\ vgcollection_console' =
                 {c \in vgcollection_console : c.collectionid # run.collectionid}
            /\ IF run.data.consoleIds = {}
               THEN /\ run' = Return(Send(run))
                    /\ resp' = RunResp(run, 200, FALSE)
               ELSE /\ run' = [run EXCEPT !.pc = "consoles"]
                    /\ resp' = resp
    /\ UNCHANGED <<useraccount, wishTables, gamedetails, vgcollection, colseq,
                   friendTables, gameTables, clock, held, cookie, reg, edit, conc, form>>

\* editGameDetails 4): insert the new vgcollection_console rows
EditGameDetailsInsert(dbok) ==
    /\ run.route = "edit-game-details"
    /\ run.pc = "consoles"
    /\ LET rows == {[collectionid |-> run.collectionid, consoleid |-> cid] :
                      cid \in run.data.consoleIds} IN
       IF ~dbok
       THEN /\ run' = Return(Send(run))
            /\ resp' = RunResp(run, 500, TRUE)
            /\ UNCHANGED vgcollection_console
       ELSE /\ vgcollection_console' = vgcollection_console \cup rows
            /\ run' = Return(Send(run))
            /\ resp' = RunResp(run, 200, FALSE)
    /\ UNCHANGED <<useraccount, wishTables, gamedetails, vgcollection, colseq,
                   friendTables, gameTables, clock, held, cookie, reg, edit, conc, form>>

\* GET /api/reports/:reportType: reportTypes = req.params.reportType.split(',')
ReportsStart(tok, reportTypes) ==
    /\ Idle
    /\ run.pc \in {"idle", "end"}
    /\ Authenticated(tok).status = 200
    /\ run' = [IdleRun EXCEPT !.route = "reports", !.tok = tok, !.pc = "loop",
                              !.todo = reportTypes]
    /\ UNCHANGED <<db, clock, held, cookie, reg, edit, conc, form, resp>>

\* One pass of "for (const reportType of reportTypes)": a select that returns
\* an error is thrown to the catch block, which answers 500; a name that is
\* no report type asks for nothing
ReportsLoop(dbok) ==
    /\ run.route = "reports"
    /\ run.pc = "loop"
    /\ run.todo # <<>>
    /\ LET reportType == Head(run.todo) IN
       IF reportType \in ReportTypes /\ ~dbok
       THEN /\ run' = Return(Send(run))
            /\ resp' = RunResp(run, 500, TRUE)
       ELSE /\ run' = [run EXCEPT !.todo = Tail(@),
                                  !.results = @ \cup ({reportType} \cap ReportTypes)]
            /\ resp' = resp
    /\ UNCHANGED <<db, clock, held, cookie, reg, edit, conc, form>>

\* res.json(results) after the loop
ReportsSend ==
    /\ run.route = "reports"
    /\ run.pc = "loop"
    /\ run.todo = <<>>
    /\ run' = Return(Send(run))
    /\ resp' = Resp("reports", 200, run.tok, Authenticated(run.tok), FALSE, NoReq,
                    [results |-> [t \in run.results |-> [count |-> ReportCount(t)]]])
    /\ UNCHANGED <<db, clock, held, cookie, reg, edit, conc, form>>

----------------------------------------------------------------------------
(* Friend handlers.  No handler looks for an existing row before it        *)
(* inserts, so friend_requests and friendships can hold the same pair more *)
(* than once: a row carries the number of its copy of the pair.            *)

Min(a, b) == IF a < b THEN a ELSE b
Max(a, b) == IF a < b THEN b ELSE a

\* .match({ requester_id, target_id })
RequestRows(requester, target) ==
    {r \in friend_requests : r.requester_id = requester /\ r.target_id = target}

\* .or(and(user_a.eq.me,user_b.eq.other),and(user_a.eq.other,user_b.eq.me))
FriendshipRows(me, other) ==
    {f \in friendships : \/ (f.user_a = me /\ f.user_b = other)
                         \/ (f.user_a = other /\ f.user_b = me)}

Me_(auth) == UserIdOf(auth.user)

\* POST /api/friends/request/:targetId: the result of the insert is not read
FriendRequest(tok, target, dbok) ==
    /\ Idle
    /\ Cardinality(friend_requests) + Cardinality(friendships) < MaxFriendRows
    /\ Authenticated(tok).status = 200
    /\ LET auth == Authenticated(tok)
           me == Me_(auth) IN
       /\ friend_requests' =
             IF dbok
             THEN friend_requests \cup
                    {[requester_id |-> me, target_id |-> target,
                      copy |-> Cardinality(RequestRows(me, target)) + 1]}
             ELSE friend_requests
       /\ resp' = Resp("friends-request", 200, tok, auth, ~dbok, Req(target, 0),
                       [success |-> TRUE])
    /\ UNCHANGED <<useraccount, wishTables, collTables, friendships, chat_threads,
                   clock, held, cookie, reg, edit, conc, form, run, gameTables>>

\* DELETE /api/friends/request/:targetId: the result of the delete is not read
FriendCancel(tok, target, dbok) ==
    /\ Idle
    /\ Authenticated(tok).status = 200
    /\ LET auth == Authenticated(tok)
           me == Me_(auth) IN
       /\ friend_requests' = IF dbok THEN friend_requests \ RequestRows(me, target)
                             ELSE friend_requests
       /\ resp' = Resp("friends-cancel", 200, tok, auth, ~dbok, Req(target, 0),
                       [success |-> TRUE])
    /\ UNCHANGED <<useraccount, wishTables, collTables, friendships, chat_threads,
                   clock, held, cookie, reg, edit, conc, form, run, gameTables>>

\* DELETE /api/friends/requests/incoming/:requesterId
FriendDecline(tok, requester, dbok) ==
    /\ Idle
    /\ Authenticated(tok).status = 200
    /\ LET auth == Authenticated(tok)
           me == Me_(auth) IN
       IF ~dbok
       THEN /\ resp' = Resp("friends-decline", 500, tok, auth, TRUE, Req(requester, 0), NoBody)
            /\ UNCHANGED friend_requests
       ELSE /\ friend_requests' = friend_requests \ RequestRows(requester, me)
            /\ resp' = Resp("friends-decline", 200, tok, auth, FALSE, Req(requester, 0),
                            [success |-> TRUE])
    /\ UNCHANGED <<useraccount, wishTables, collTables, friendships, chat_threads,
                   clock, held, cookie, reg, edit, conc, form, run, gameTables>>

\* A lookup that never finds the pair's thread
ThreadRowsNone(a, b) == {}

\* chat_threads rows of the pair (the upsert's conflict target)
ThreadRows(a, b) == {t \in chat_threads : t.user_a = a /\ t.user_b = b}

\* POST /api/friends/accept/:requesterId: delete the request, insert the
\* friendship (neither result is read), upsert the chat thread
FriendAccept(tok, requester, delok, insok, upok) ==
    /\ Idle
    /\ Cardinality(friend_requests) + Cardinality(friendships) < MaxFriendRows
    /\ Authenticated(tok).status = 200
    /\ LET auth == Authenticated(tok)
           me == Me_(auth)
           a == Min(me, requester)
           b == Max(me, requester)
           thread == IF ThreadRows(a, b) # {}
                     THEN CHOOSE t \in ThreadRows(a, b) : TRUE
                     ELSE [id |-> Cardinality(chat_threads) + 1, user_a |-> a, user_b |-> b] IN
       /\ friend_requests' = IF delok THEN friend_requests \ RequestRows(requester, me)
                             ELSE friend_requests
       /\ friendships' =
             IF insok
             THEN friendships \cup
                    {[user_a |-> a, user_b |-> b, copy |-> Cardinality(FriendshipRows(a, b)) + 1]}
             ELSE friendships
       /\ IF ~upok
          THEN /\ resp' = Resp("friends-accept", 500, tok, auth, TRUE, Req(requester, 0), NoBody)
               /\ UNCHANGED chat_threads
          ELSE /\ chat_threads' = chat_threads \cup {thread}
               /\ resp' = Resp("friends-accept", 200, tok, auth, ~delok \/ ~insok,
                               Req(requester, 0), [success |-> TRUE, threadId |-> thread.id])
    /\ UNCHANGED <<useraccount, wishTables, collTables, clock, held, cookie, reg, edit, conc,
                   form, run,
                   gameTables>>

\* DELETE /api/friends/:otherId: the result of the delete is not read
Unfriend(tok, other, dbok) ==
    /\ Idle
    /\ Authenticated(tok).status = 200
    /\ LET auth == Authenticated(tok)
           me == Me_(auth) IN
       /\ friendships' = IF dbok THEN friendships \ FriendshipRows(me, other)
                         ELSE friendships
       /\ resp' = Resp("friends-unfriend", 200, tok, auth, ~dbok, Req(other, 0),
                       [success |-> TRUE])
    /\ UNCHANGED <<useraccount, wishTables, collTables, friend_requests, chat_threads,
                   clock, held, cookie, reg, edit, conc, form, run, gameTables>>

\* threadRow?.id of the pair's thread lookup with .single(): the id when
\* exactly one row matches, undefined (0) otherwise
ThreadIdOf(a, b) ==
    LET q == Single(ThreadRows(a, b)) IN
    IF q.error \/ q.data = {} THEN 0 ELSE (CHOOSE t \in q.data : TRUE).id

\* GET /api/friends: one entry per friendships row of the user, with the id
\* of the other user and the id of the pair's chat thread
Friends(tok, dbok) ==
    /\ Idle
    /\ Authenticated(tok).status = 200
    /\ LET auth == Authenticated(tok)
           me == Me_(auth)
           rows == {f \in friendships : f.user_a = me \/ f.user_b = me}
           other(f) == IF f.user_a = me THEN f.user_b ELSE f.user_a
           friends == {[id |-> other(f),
                        threadId |-> ThreadIdOf(Min(me, other(f)), Max(me, other(f)))] :
                       f \in rows} IN
       IF ~dbok
       THEN resp' = Resp("friends", 500, tok, auth, TRUE, NoReq, NoBody)
       ELSE resp' = Resp("friends", 200, tok, auth, FALSE, NoReq, [friends |-> friends])
    /\ UNCHANGED <<db, clock, held, cookie, reg, edit, conc, form, run>>

----------------------------------------------------------------------------
(* Time *)

Tick ==
    /\ clock + TickMinutes <= MaxClock
    /\ clock' = clock + TickMinutes
    /\ UNCHANGED <<db, held, cookie, reg, edit, conc, form, run, resp>>

----------------------------------------------------------------------------
(* Accounts and authentication, one request at a time *)

NoResp == [route |-> "none", status |-> 0, tok |-> NoToken, user |-> 0,
           reached |-> FALSE, dberr |-> FALSE, at |-> 0, req |-> NoReq, body |-> NoBody]

SeedUsers ==
    { [userid |-> 1, username |-> "u1", email |-> "e1", password |-> Hash("p1"),
       admin |-> 0, avatar_url |-> "null"],
      [userid |-> 2, username |-> "u2", email |-> "e2", password |-> Hash("p1"),
       admin |-> 0, avatar_url |-> "null"] }

EmptyRest ==
    /\ vgwishlist = {}
    /\ vgwishlist_console = {}
    /\ wlseq = 0
    /\ gamedetails = {}
    /\ vgcollection = {}
    /\ vgcollection_console = {}
    /\ colseq = 0
    /\ gameinfo = {}
    /\ gameinfo_console = {}
    /\ giseq = 0
    /\ friend_requests = {}
    /\ friendships = {}
    /\ chat_threads = {}
    /\ clock = 0
    /\ held = NoToken
    /\ cookie = NoToken
    /\ conc = 1
    /\ edit = [s \in 1..2 |-> IdleEdit]
    /\ run = IdleRun
    /\ form = ReportsDetails
    /\ reg = [s \in 1..2 |-> IdleReg]
    /\ resp = NoResp

Init ==
    /\ useraccount = {}
    /\ EmptyRest

Next ==
    \/ \E s \in 1..conc, body \in RegisterBodies, dbok \in BOOLEAN : RegisterCheck(s, body, dbok)
    \/ \E s \in 1..conc, upok \in BOOLEAN, dbok \in BOOLEAN : RegisterInsert(s, upok, dbok)
    \/ \E u \in Usernames, p \in Passwords, dbok \in BOOLEAN : Login(u, p, dbok)
    \/ \E route \in {"me", "update-email"}, tok \in PresentedTokens, authok \in BOOLEAN :
          AuthReject(route, tok, authok)
    \/ \E tok \in PresentedTokens : Me(tok)
    \/ \E tok \in PresentedTokens, userId \in UserIds, e \in Emails, dbok \in BOOLEAN :
          UpdateEmail(tok, userId, e, dbok)

Spec == Init /\ [][Next]_vars

----------------------------------------------------------------------------
(* Token lifetime: two registered users, the clock runs *)

InitAuth ==
    /\ useraccount = SeedUsers
    /\ EmptyRest

NextAuth ==
    \/ \E u \in Usernames, p \in Passwords, dbok \in BOOLEAN : Login(u, p, dbok)
    \/ \E route \in {"me", "update-email"}, tok \in PresentedTokens, authok \in BOOLEAN :
          AuthReject(route, tok, authok)
    \/ \E tok \in PresentedTokens : Me(tok)
    \/ \E tok \in PresentedTokens, userId \in UserIds, e \in Emails, dbok \in BOOLEAN :
          UpdateEmail(tok, userId, e, dbok)
    \/ Tick

SpecAuth == InitAuth /\ [][NextAuth]_vars

----------------------------------------------------------------------------
(* Concurrent registrations: two requests in flight *)

InitRace ==
    /\ useraccount = {}
    /\ vgwishlist = {}
    /\ vgwishlist_console = {}
    /\ wlseq = 0
    /\ gamedetails = {}
    /\ vgcollection = {}
    /\ vgcollection_console = {}
    /\ colseq = 0
    /\ gameinfo = {}
    /\ gameinfo_console = {}
    /\ giseq = 0
    /\ friend_requests = {}
    /\ friendships = {}
    /\ chat_threads = {}
    /\ clock = 0
    /\ held = NoToken
    /\ cookie = NoToken
    /\ conc = 2
    /\ edit = [s \in 1..2 |-> IdleEdit]
    /\ run = IdleRun
    /\ form = ReportsDetails
    /\ reg = [s \in 1..2 |-> IdleReg]
    /\ resp = NoResp

NextRace ==
    \/ \E s \in 1..conc, body \in RegisterBodies, dbok \in BOOLEAN : RegisterCheck(s, body, dbok)
    \/ \E s \in 1..conc, upok \in BOOLEAN, dbok \in BOOLEAN : RegisterInsert(s, upok, dbok)

SpecRace == InitRace /\ [][NextRace]_vars

----------------------------------------------------------------------------
(* Wishlists of two registered users, current variant *)

SeedUserIds == {1, 2}

NextWish ==
    \/ \E route \in {"check-wishlist", "add-game-wishlist", "removewishlist"},
          tok \in PresentedTokens, authok \in BOOLEAN : AuthReject(route, tok, authok)
    \/ \E tok \in PresentedTokens, u \in SeedUserIds, g \in GameIds, dbok \in BOOLEAN :
          CheckWishlist(tok, u, g, dbok)
    \/ \E tok \in PresentedTokens, u \in SeedUserIds, g \in GameIds,
          cs \in ConsoleIdSets, failAt \in 0..2 : AddGameWishlist(tok, u, g, cs, failAt)
    \/ \E tok \in PresentedTokens, u \in SeedUserIds, g \in GameIds, failAt \in 0..2 :
          RemoveWishlist(tok, u, g, failAt)

SpecWish == InitAuth /\ [][NextWish]_vars

(* Wishlists of two registered users, legacy variant *)

NextLegacy ==
    \/ \E route \in {"add-to-wishlist", "removewishlist"},
          tok \in PresentedTokens, authok \in BOOLEAN : AuthReject(route, tok, authok)
    \/ \E tok \in PresentedTokens, u \in SeedUserIds, g \in GameIds, failAt \in 0..2 :
          AddToWishlist(tok, u, g, failAt)
    \/ \E tok \in PresentedTokens, u \in SeedUserIds, g \in GameIds, failAt \in 0..2 :
          RemoveWishlist(tok, u, g, failAt)

SpecLegacy == InitAuth /\ [][NextLegacy]_vars

----------------------------------------------------------------------------
(* Reports over changing wishlist and collection tables, for one or two *)
(* registered users                                                       *)

InitReports ==
    /\ useraccount \in {{u \in SeedUsers : u.userid = 1}, SeedUsers}
    /\ EmptyRest

NextReports ==
    \/ \E tok \in PresentedTokens, failAt \in 0..2 : AddGameWishlist(tok, 1, 1, {1}, failAt)
    \/ \E tok \in PresentedTokens, failAt \in 0..2 : RemoveWishlist(tok, 1, 1, failAt)
    \/ \E tok \in PresentedTokens, failAt \in 0..3 :
          AddGameDetails(tok, 1, 1, ReportsDetails, failAt)
    \/ \E tok \in PresentedTokens, failAt \in 0..3 : RemoveCollection(tok, 1, 1, failAt)
    \/ \E tok \in PresentedTokens, types \in {{t} : t \in ReportTypes} \cup {ReportTypes},
          failed \in {{}} \cup {{t} : t \in ReportTypes} : Reports(tok, types, failed)

SpecReports == InitReports /\ [][NextReports]_vars

----------------------------------------------------------------------------
(* Friends: two registered users, the second one logged in *)

InitFriends ==
    /\ useraccount = SeedUsers
    /\ vgwishlist = {}
    /\ vgwishlist_console = {}
    /\ wlseq = 0
    /\ gamedetails = {}
    /\ vgcollection = {}
    /\ vgcollection_console = {}
    /\ colseq = 0
    /\ gameinfo = {}
    /\ gameinfo_console = {}
    /\ giseq = 0
    /\ friend_requests = {}
    /\ friendships = {}
    /\ chat_threads = {}
    /\ clock = 0
    /\ held = generateAccessToken(CHOOSE u \in SeedUsers : u.userid = 2)
    /\ cookie = NoToken
    /\ conc = 1
    /\ edit = [s \in 1..2 |-> IdleEdit]
    /\ run = IdleRun
    /\ form = ReportsDetails
    /\ reg = [s \in 1..2 |-> IdleReg]
    /\ resp = NoResp

FriendRoutes ==
    {"friends-request", "friends-cancel", "friends-decline", "friends-accept",
     "friends-unfriend"}

NextFriends ==
    \/ \E tok \in PresentedTokens, target \in SeedUserIds, dbok \in BOOLEAN :
          FriendRequest(tok, target, dbok)
    \/ \E tok \in PresentedTokens, target \in SeedUserIds, dbok \in BOOLEAN :
          FriendCancel(tok, target, dbok)
    \/ \E tok \in PresentedTokens, requester \in SeedUserIds, dbok \in BOOLEAN :
          FriendDecline(tok, requester, dbok)
    \/ \E tok \in PresentedTokens, requester \in SeedUserIds,
          delok \in BOOLEAN, insok \in BOOLEAN, upok \in BOOLEAN :
          FriendAccept(tok, requester, delok, insok, upok)
    \/ \E tok \in PresentedTokens, other \in SeedUserIds, dbok \in BOOLEAN :
          Unfriend(tok, other, dbok)
    \/ \E tok \in PresentedTokens, dbok \in BOOLEAN : Friends(tok, dbok)

SpecFriends == InitFriends /\ [][NextFriends]_vars

----------------------------------------------------------------------------
(* Multi-step writes: add-game-to-database and add-game-details *)

NextGames ==
    \/ \E tok \in PresentedTokens, Name \in GameNames, hasCover \in BOOLEAN, failAt \in 0..2 :
          AddGameToDatabase(tok, Name, {1, 2}, hasCover, failAt)
    \/ \E tok \in PresentedTokens, data \in DetailsBodies, failAt \in 0..3 :
          AddGameDetails(tok, 1, 1, data, failAt)

SpecGames == InitAuth /\ [][NextGames]_vars

----------------------------------------------------------------------------
(* Collection requests whose remote calls all return without an error *)

NextCollection ==
    \/ \E tok \in PresentedTokens, userId \in SeedUserIds, gameId \in GameIds,
          data \in DetailsBodies :
          AddGameDetails(tok, userId, gameId, data, 0)
    \/ \E tok \in PresentedTokens, userId \in SeedUserIds, gameId \in GameIds :
          RemoveCollection(tok, userId, gameId, 0)

SpecCollection == InitAuth /\ [][NextCollection]_vars

----------------------------------------------------------------------------
(* Legacy POST /add-game-to-database, gameinfo with a console column *)

NextGamesLegacy ==
    \/ \E route \in {"add-game-to-database"}, tok \in PresentedTokens, authok \in BOOLEAN :
          AuthReject(route, tok, authok)
    \/ \E tok \in PresentedTokens, Name \in GameNames, Console \in ConsoleNames,
          hasCover \in BOOLEAN, failAt \in 0..2 :
          AddGameToDatabaseLegacy(tok, Name, Console, hasCover, failAt)

SpecGamesLegacy == InitAuth /\ [][NextGamesLegacy]_vars

----------------------------------------------------------------------------
(* Passwords: register and update-password *)

NextPassword ==
    \/ \E s \in 1..conc, body \in RegisterBodies, dbok \in BOOLEAN : RegisterCheck(s, body, dbok)
    \/ \E s \in 1..conc, upok \in BOOLEAN, dbok \in BOOLEAN : RegisterInsert(s, upok, dbok)
    \/ \E route \in {"update-password"}, tok \in PresentedTokens, authok \in BOOLEAN :
          AuthReject(route, tok, authok)
    \/ \E tok \in PresentedTokens, userId \in UserIds, p \in Passwords, dbok \in BOOLEAN :
          UpdatePassword(tok, userId, p, dbok)

SpecPassword == Init /\ [][NextPassword]_vars

----------------------------------------------------------------------------
(* Token refresh: login, refresh, logout and the clock *)

NextRefresh ==
    \/ \E u \in Usernames, p \in Passwords, dbok \in BOOLEAN : Login(u, p, dbok)
    \/ \E token \in RefreshCookies, dbok \in BOOLEAN : Refresh(token, dbok)
    \/ Logout
    \/ Tick

\* User 1 has logged in at minute 0 and has the cookie of that login
InitRefresh ==
    /\ useraccount = SeedUsers
    /\ vgwishlist = {}
    /\ vgwishlist_console = {}
    /\ wlseq = 0
    /\ gamedetails = {}
    /\ vgcollection = {}
    /\ vgcollection_console = {}
    /\ colseq = 0
    /\ gameinfo = {}
    /\ gameinfo_console = {}
    /\ giseq = 0
    /\ friend_requests = {}
    /\ friendships = {}
    /\ chat_threads = {}
    /\ clock = 0
    /\ held = generateAccessToken(CHOOSE u \in SeedUsers : u.userid = 1)
    /\ cookie = generateRefreshToken(CHOOSE u \in SeedUsers : u.userid = 1)
    /\ conc = 1
    /\ edit = [s \in 1..2 |-> IdleEdit]
    /\ run = IdleRun
    /\ form = ReportsDetails
    /\ reg = [s \in 1..2 |-> IdleReg]
    /\ resp = NoResp

SpecRefresh == InitRefresh /\ [][NextRefresh]_vars

----------------------------------------------------------------------------
(* edit-wishlist: two overlapping requests on one wishlist entry *)

\* User 1 has game 1 on the wishlist for console 1, as add-game-wishlist
\* leaves it; the server serves two requests at a time
InitEditRace ==
    /\ useraccount = SeedUsers
    /\ vgwishlist = {[wishlistid |-> 1, userid |-> 1, gameid |-> 1]}
    /\ vgwishlist_console = {[wishlistid |-> 1, consoleid |-> 1]}
    /\ wlseq = 1
    /\ gamedetails = {}
    /\ vgcollection = {}
    /\ vgcollection_console = {}
    /\ colseq = 0
    /\ gameinfo = {}
    /\ gameinfo_console = {}
    /\ giseq = 0
    /\ friend_requests = {}
    /\ friendships = {}
    /\ chat_threads = {}
    /\ clock = 0
    /\ held = NoToken
    /\ cookie = NoToken
    /\ conc = 2
    /\ edit = [s \in 1..2 |-> IdleEdit]
    /\ run = IdleRun
    /\ form = ReportsDetails
    /\ reg = [s \in 1..2 |-> IdleReg]
    /\ resp = NoResp

NextEditRace ==
    \/ \E s \in 1..conc, tok \in PresentedTokens, gameId \in GameIds,
          consoleIds \in EditConsoleSets, dbok \in BOOLEAN :
          EditFetch(s, tok, 1, gameId, consoleIds, dbok)
    \/ \E s \in 1..conc, dbok \in BOOLEAN : EditDelete(s, dbok)
    \/ \E s \in 1..conc, dbok \in BOOLEAN : EditInsert(s, dbok)

SpecEditRace == InitEditRace /\ [][NextEditRace]_vars

(* Wishlist requests served one at a time, every remote call succeeding *)

NextWishOk ==
    \/ \E tok \in PresentedTokens, gameId \in GameIds, cs \in ConsoleIdSets :
          AddGameWishlist(tok, 1, gameId, cs, 0)
    \/ \E s \in 1..conc, tok \in PresentedTokens, gameId \in GameIds,
          consoleIds \in EditConsoleSets :
          EditFetch(s, tok, 1, gameId, consoleIds, TRUE)
    \/ \E s \in 1..conc : EditDelete(s, TRUE)
    \/ \E s \in 1..conc : EditInsert(s, TRUE)

SpecWishOk == InitAuth /\ [][NextWishOk]_vars

----------------------------------------------------------------------------
(* Reports that name a game, over a catalogue of two games *)

InitGameReports ==
    /\ useraccount = SeedUsers
    /\ vgwishlist = {}
    /\ vgwishlist_console = {}
    /\ wlseq = 0
    /\ gamedetails = {}
    /\ vgcollection = {}
    /\ vgcollection_console = {}
    /\ colseq = 0
    /\ gameinfo = {[gameid |-> 1, name |-> "g1"], [gameid |-> 2, name |-> "g2"]}
    /\ gameinfo_console = {}
    /\ giseq = 2
    /\ friend_requests = {}
    /\ friendships = {}
    /\ chat_threads = {}
    /\ clock = 0
    /\ held = NoToken
    /\ cookie = NoToken
    /\ conc = 1
    /\ edit = [s \in 1..2 |-> IdleEdit]
    /\ run = IdleRun
    /\ form = ReportsDetails
    /\ reg = [s \in 1..2 |-> IdleReg]
    /\ resp = NoResp

\* The details sent for a game: the first game is rated higher
ReviewOf(gameId) == CHOOSE d \in DetailsBodies : (d.rating = 5) <=> (gameId = 1)

NextGameReports ==
    \/ \E tok \in PresentedTokens, userId \in SeedUserIds, gameId \in GameIds :
          AddGameWishlist(tok, userId, gameId, {1}, 0)
    \/ \E tok \in PresentedTokens, gameId \in GameIds, failAt \in {0, 2} :
          AddGameDetails(tok, 1, gameId, ReviewOf(gameId), failAt)
    \/ \E tok \in PresentedTokens, reportType \in GameReportTypes, failAt \in 0..3 :
          GameReports(tok, reportType, failAt)

SpecGameReports == InitGameReports /\ [][NextGameReports]_vars

----------------------------------------------------------------------------
(* Routes addressed by :userId, requested for either registered user, every *)
(* remote call succeeding                                                    *)

NextOwner ==
    \/ \E tok \in PresentedTokens, userId \in SeedUserIds, p \in Passwords :
          UpdatePassword(tok, userId, p, TRUE)
    \/ \E tok \in PresentedTokens, userId \in SeedUserIds, e \in Emails :
          UpdateEmail(tok, userId, e, TRUE)
    \/ \E tok \in PresentedTokens, userId \in SeedUserIds :
          AddGameWishlist(tok, userId, 1, {1}, 0)
    \/ \E tok \in PresentedTokens, userId \in SeedUserIds :
          RemoveWishlist(tok, userId, 1, 0)
    \/ \E tok \in PresentedTokens, userId \in SeedUserIds :
          AddGameDetails(tok, userId, 1, ReportsDetails, 0)
    \/ \E tok \in PresentedTokens, userId \in SeedUserIds :
          RemoveCollection(tok, userId, 1, 0)

SpecOwner == InitAuth /\ [][NextOwner]_vars

----------------------------------------------------------------------------
(* Responses of add-game-to-database, edit-game-details and reports, for a *)
(* collection with one entry                                                *)

InitResponses ==
    /\ useraccount = SeedUsers
    /\ vgwishlist = {}
    /\ vgwishlist_console = {}
    /\ wlseq = 0
    /\ gamedetails = {[gamedetailsid |-> 1, condition |-> Join(<< <<"a">> >>, CommaSpace),
                       spoiler |-> 0, rating |-> 3]}
    /\ vgcollection = {[collectionid |-> 1, userid |-> 1, gameid |-> 1, gamedetailsid |-> 1]}
    /\ vgcollection_console = {}
    /\ colseq = 1
    /\ gameinfo = {}
    /\ gameinfo_console = {}
    /\ giseq = 0
    /\ friend_requests = {}
    /\ friendships = {}
    /\ chat_threads = {}
    /\ clock = 0
    /\ held = NoToken
    /\ cookie = NoToken
    /\ conc = 1
    /\ edit = [s \in 1..2 |-> IdleEdit]
    /\ run = IdleRun
    /\ form = ReportsDetails
    /\ reg = [s \in 1..2 |-> IdleReg]
    /\ resp = NoResp

NextResponses ==
    \/ \E tok \in PresentedTokens, hasCover \in BOOLEAN, parses \in BOOLEAN :
          AddGameStart(tok, "g1", {1, 2}, hasCover, parses)
    \/ \E dbok \in BOOLEAN : AddGameInsert(dbok)
    \/ \E dbok \in BOOLEAN : AddGameLink(dbok)
    \/ \E tok \in PresentedTokens, gameId \in GameIds, gameDetails \in DetailsBodies :
          EditGameDetailsStart(tok, 1, gameId, gameDetails)
    \/ \E dbok \in BOOLEAN : EditGameDetailsFetch(dbok)
    \/ \E dbok \in BOOLEAN : EditGameDetailsUpdate(dbok)
    \/ \E dbok \in BOOLEAN : EditGameDetailsWipe(dbok)
    \/ \E dbok \in BOOLEAN : EditGameDetailsInsert(dbok)
    \/ \E tok \in PresentedTokens, reportTypes \in ReportPaths : ReportsStart(tok, reportTypes)
    \/ \E dbok \in BOOLEAN : ReportsLoop(dbok)
    \/ ReportsSend

SpecResponses == InitResponses /\ [][NextResponses]_vars

----------------------------------------------------------------------------
(* Accounts of the first variant, with the clock of its one-hour tokens *)

NextFirstVariant ==
    \/ \E body \in RegisterBodies, failAt \in 0..3 : RegisterFirstVariant(body, failAt)
    \/ \E u \in Usernames, p \in Passwords, dbok \in BOOLEAN : LoginFirstVariant(u, p, dbok)
    \/ Tick

SpecFirstVariant == Init /\ [][NextFirstVariant]_vars

----------------------------------------------------------------------------
(* The condition checkboxes of the game-details form, stored by            *)
(* add-game-details or edit-game-details and read by get-game-details      *)

MaxBoxes == 2
MaxChars == 2

\* Strings of letters, without comma and without a blank at either end
Labels ==
    UNION {[1..n -> {"a", "b", " "}] : n \in 1..MaxChars}
      \ {str \in UNION {[1..n -> {"a", "b", " "}] : n \in 1..MaxChars} :
           str[1] = " " \/ str[Len(str)] = " "}

\* The checkboxes a form can carry: arrays of labels, the field left out,
\* and arrays a label of which has a comma, blanks around it, or no letter
Checkboxes ==
    UNION {[1..n -> Labels] : n \in 0..MaxBoxes}
      \cup {Undefined, << <<"a", ",", "b">> >>, << <<" ", "a">>, <<"b", " ">> >>, << <<>> >>}

InitCondition ==
    /\ useraccount = SeedUsers
    /\ vgwishlist = {}
    /\ vgwishlist_console = {}
    /\ wlseq = 0
    /\ gamedetails = {}
    /\ vgcollection = {}
    /\ vgcollection_console = {}
    /\ colseq = 0
    /\ gameinfo = {}
    /\ gameinfo_console = {}
    /\ giseq = 0
    /\ friend_requests = {}
    /\ friendships = {}
    /\ chat_threads = {}
    /\ clock = 0
    /\ held = NoToken
    /\ cookie = NoToken
    /\ conc = 1
    /\ edit = [s \in 1..2 |-> IdleEdit]
    /\ run = IdleRun
    /\ form \in {[checkboxes |-> cb, spoiler |-> FALSE, rating |-> 3, consoleIds |-> {}] :
                   cb \in Checkboxes}
    /\ reg = [s \in 1..2 |-> IdleReg]
    /\ resp = NoResp

NextCondition ==
    \/ AddGameDetails(ForgedToken(1, "JWT_SECRET"), 1, 1, form, 0)
    \/ EditGameDetailsStart(ForgedToken(1, "JWT_SECRET"), 1, 1, form)
    \/ EditGameDetailsFetch(TRUE)
    \/ EditGameDetailsUpdate(TRUE)
    \/ EditGameDetailsWipe(TRUE)
    \/ \E dbok \in BOOLEAN : GetGameDetails(ForgedToken(1, "JWT_SECRET"), 1, 1, dbok)

SpecCondition == InitCondition /\ [][NextCondition]_vars

----------------------------------------------------------------------------
(* Claims *)

GuardedRoutes ==
    {"me", "update-email", "check-wishlist", "add-game-wishlist", "removewishlist",
     "add-to-wishlist", "add-game-details", "removecollection", "reports"}
    \cup FriendRoutes

\* C1: a POST /register whose email is already in useraccount ends at the
\* existence check: it responds 400 (500 when the check query itself fails)
\* and the useraccount table is unchanged.
C1_DuplicateEmailRejected ==
    [][resp'.route = "register" =>
       \A s \in 1..conc, body \in RegisterBodies, dbok \in BOOLEAN :
         (RegisterCheck(s, body, dbok) /\ \E u \in useraccount : u.email = body.email)
         => /\ useraccount' = useraccount
            /\ reg'[s].pc = "done"
            /\ resp'.status = IF dbok THEN 400 ELSE 500]_vars

C1_Witness ==
    /\ resp.route = "register"
    /\ resp.status = 400
    /\ reg[1].status = 400
    /\ \E u \in useraccount : u.email = reg[1].body.email

\* C2 as stated: the access token of a login is accepted by every guarded
\* route and authenticates as its user whenever the user lookup answers.
C2_TokenAcceptedWhileRowExists ==
    (resp.route \in GuardedRoutes /\ resp.tok = held /\ held # NoToken /\ ~resp.dberr)
    => (resp.reached /\ resp.user = held.userId)

\* C2 amended: the access token of a login is accepted by every guarded
\* route and authenticates as its user until it expires, 15 minutes after
\* it was issued; from then on the route answers 401.
C2_TokenAcceptedUntilExpiry ==
    (resp.route \in GuardedRoutes /\ resp.tok = held /\ held # NoToken)
    => /\ (resp.at < held.exp /\ ~resp.dberr) => (resp.reached /\ resp.user = held.userId)
       /\ resp.at >= held.exp => (~resp.reached /\ resp.status = 401)

C2_Witness ==
    /\ resp.route = "me"
    /\ resp.tok = held
    /\ held # NoToken
    /\ resp.at > held.exp - AccessTtlMinutes
    /\ resp.reached
    /\ resp.user = held.userId

\* C6: no two useraccount rows hold the same email.
C6_EmailUnique ==
    \A u \in useraccount, v \in useraccount : u.email = v.email => u = v

\* C7: when two overlapping POST /register requests with the same email have
\* both responded 201, useraccount holds two rows with that email.
C7_RaceLeavesDuplicates ==
    (/\ reg[1].pc = "done" /\ reg[1].status = 201
     /\ reg[2].pc = "done" /\ reg[2].status = 201
     /\ reg[1].body.email = reg[2].body.email)
    => Cardinality({u \in useraccount : u.email = reg[1].body.email}) >= 2

C7_Witness ==
    /\ reg[1].pc = "done" /\ reg[1].status = 201
    /\ reg[2].pc = "done" /\ reg[2].status = 201
    /\ reg[1].body.email = reg[2].body.email
    /\ Cardinality({u \in useraccount : u.email = reg[1].body.email}) = 2

\* The token is none, is not signed with the access secret, or names a user id
\* that has no useraccount row.
BadToken(tok) ==
    \/ tok = NoToken
    \/ tok.secret # "JWT_SECRET"
    \/ ~\E u \in useraccount : u.userid = tok.userId

\* C3: on a guarded route, a request with no token, a token not signed with
\* the access secret or a token of an unknown user is answered 401 or 500
\* without the handler being called, and no table changes.
C3_UnauthenticatedNeverReachesHandler ==
    [][(resp'.route \in GuardedRoutes /\ BadToken(resp'.tok))
       => (~resp'.reached /\ resp'.status \in {401, 500} /\ db' = db)]_vars

C3_Witness ==
    /\ resp.route = "add-game-wishlist"
    /\ resp.tok # NoToken
    /\ resp.tok.secret = "JWT_SECRET"
    /\ ~\E u \in useraccount : u.userid = resp.tok.userId
    /\ ~resp.reached

\* C4: an authenticated DELETE /api/removewishlist for a pair without a
\* vgwishlist row responds 404 and leaves vgwishlist as it is; for a pair with
\* a row, when the remote calls succeed, it responds 200 and no row of the
\* pair is left.
C4_RemoveWishlist ==
    [][(resp'.route = "removewishlist" /\ resp'.reached /\ ~resp'.dberr) =>
       LET u == resp'.req.userId
           g == resp'.req.gameId IN
       IF ~\E w \in vgwishlist : w.userid = u /\ w.gameid = g
       THEN resp'.status = 404 /\ vgwishlist' = vgwishlist
       ELSE /\ resp'.status = 200
            /\ ~\E w \in vgwishlist' : w.userid = u /\ w.gameid = g]_vars

C4_Witness404 ==
    /\ resp.route = "removewishlist"
    /\ resp.status = 404
    /\ vgwishlist # {}

C4_Witness ==
    /\ resp.route = "removewishlist"
    /\ resp.status = 200
    /\ ~resp.dberr
    /\ wlseq >= 2
    /\ ~\E w \in vgwishlist : w.userid = resp.req.userId /\ w.gameid = resp.req.gameId
    /\ vgwishlist # {}

NoDuplicateWishlist ==
    \A w \in vgwishlist, x \in vgwishlist :
        (w.userid = x.userid /\ w.gameid = x.gameid) => w = x

\* C8: an authenticated POST /api/add-to-wishlist for a game already in the
\* user's wishlist responds 400 (500 when the check query fails) and inserts
\* nothing, and vgwishlist never holds two rows for the same (user, game).
C8_AddToWishlistNoDuplicate ==
    /\ []NoDuplicateWishlist
    /\ [][(/\ resp'.route = "add-to-wishlist"
           /\ resp'.reached
           /\ \E w \in vgwishlist : /\ w.userid = resp'.req.userId
                                    /\ w.gameid = resp'.req.gameId)
          => /\ vgwishlist' = vgwishlist
             /\ resp'.status = IF resp'.dberr THEN 500 ELSE 400]_vars

C8_Witness ==
    /\ resp.route = "add-to-wishlist"
    /\ resp.status = 400
    /\ Cardinality(vgwishlist) = 1

\* C9: vgwishlist holds at most one row per (user, game).
C9_NoDuplicateWishlistEntry == NoDuplicateWishlist

\* C5: every count of a 200 response of GET /api/reports equals the number of
\* rows of its table: TotalUsers of useraccount, TotalCollections of
\* vgcollection, TotalWishlists of vgwishlist.
C5_ReportCountsMatchTables ==
    (resp.route = "reports" /\ resp.status = 200) =>
        \A t \in DOMAIN resp.body.results :
            resp.body.results[t].count =
                CASE t = "TotalUsers" -> Cardinality(useraccount)
                  [] t = "TotalCollections" -> Cardinality(vgcollection)
                  [] t = "TotalWishlists" -> Cardinality(vgwishlist)

C5_Witness ==
    /\ resp.route = "reports"
    /\ resp.status = 200
    /\ DOMAIN resp.body.results = ReportTypes
    /\ resp.body.results["TotalUsers"].count = 2
    /\ resp.body.results["TotalCollections"].count = 1
    /\ resp.body.results["TotalWishlists"].count = 2
    /\ wlseq = MaxWishSeq
    /\ colseq = MaxCollSeq

\* C10: a response to a request during which a remote database call returned
\* an error never has a 2xx status.
C10_RemoteErrorNeverSuccess ==
    resp.dberr => ~(resp.status \in 200..299)

LinkFailure == [error |-> "Game added but failed to link consoles."]

\* C11: when the console links of POST /add-game-to-database fail, the
\* response is 500 and the gameinfo row of the request stays, without links;
\* when the vgcollection insert of insertGameDetailsAndCollection fails, the
\* response is 500 and the gamedetails row stays; when its console insert
\* fails, the response is 500 and the gamedetails and vgcollection rows stay.
C11_NoCompensation ==
    [][/\ (resp'.route = "add-game-to-database" /\ resp'.body = LinkFailure)
          => /\ resp'.status = 500
             /\ gameinfo \subseteq gameinfo'
             /\ \E g \in gameinfo' \ gameinfo :
                  /\ g.name = resp'.req.name
                  /\ ~\E l \in gameinfo_console' : l.gameid = g.gameid
             /\ gameinfo_console' = gameinfo_console
       /\ \A tok \in PresentedTokens, userId \in {1}, gameId \in {1}, data \in DetailsBodies :
            /\ AddGameDetails(tok, userId, gameId, data, 2)
               => /\ resp'.status = 500
                  /\ gamedetails \subseteq gamedetails'
                  /\ Cardinality(gamedetails' \ gamedetails) = 1
                  /\ vgcollection' = vgcollection
                  /\ vgcollection_console' = vgcollection_console
            /\ (AddGameDetails(tok, userId, gameId, data, 3) /\ data.consoleIds # {})
               => /\ resp'.status = 500
                  /\ gamedetails \subseteq gamedetails'
                  /\ vgcollection \subseteq vgcollection'
                  /\ \E d \in gamedetails' \ gamedetails, c \in vgcollection' \ vgcollection :
                       /\ c.gamedetailsid = d.gamedetailsid
                       /\ c.userid = userId /\ c.gameid = gameId
                  /\ vgcollection_console' = vgcollection_console]_vars

\* An orphaned gameinfo row and an orphaned gamedetails row, each left by a
\* request that answered 500
C11_Witness ==
    /\ resp.status = 500
    /\ \E g \in gameinfo : ~\E l \in gameinfo_console : l.gameid = g.gameid
    /\ \E d \in gamedetails : ~\E c \in vgcollection : c.gamedetailsid = d.gamedetailsid
    /\ \E c \in vgcollection : ~\E l \in vgcollection_console : l.collectionid = c.collectionid

\* C12: POST /api/friends/accept/:requesterId inserts a friendships row only
\* when a friend_requests row from the requester to the accepting user
\* existed when the request was made.
C12_RequestPrecedesFriendship ==
    [][(resp'.route = "friends-accept" /\ friendships' # friendships)
       => \E r \in friend_requests :
            r.requester_id = resp'.req.userId /\ r.target_id = resp'.user]_vars

\* C13: every friendships row has user_a < user_b, and no pair of users has
\* two rows.
C13_FriendshipsKeyedByOrderedPair ==
    /\ \A f \in friendships : f.user_a < f.user_b
    /\ \A f \in friendships, g \in friendships :
         (f.user_a = g.user_a /\ f.user_b = g.user_b) => f = g

C14_WitnessFriends ==
    /\ resp.route = "friends"
    /\ resp.status = 200
    /\ \E e \in resp.body.friends : e.threadId # 0 /\ e.id # resp.user

\* C15: when no remote call fails, every vgcollection row references an
\* existing gamedetails row, no two vgcollection rows share a gamedetailsid,
\* and every gamedetails row is referenced by exactly one vgcollection row.
C15_DetailsOneToOne ==
    /\ \A c \in vgcollection : \E d \in gamedetails : d.gamedetailsid = c.gamedetailsid
    /\ \A c \in vgcollection, x \in vgcollection :
         c.gamedetailsid = x.gamedetailsid => c = x
    /\ \A d \in gamedetails :
         Cardinality({c \in vgcollection : c.gamedetailsid = d.gamedetailsid}) = 1

\* A removal has answered 200 and another entry, with its details, remains
C15_Witness ==
    /\ resp.route = "removecollection"
    /\ resp.status = 200
    /\ Cardinality(vgcollection) = 1
    /\ Cardinality(gamedetails) = 1
    /\ colseq = 2

\* C16: no response body of POST /register or POST /login holds the refresh
\* token; the token is only in the refreshToken cookie.
C16_RefreshTokenOnlyInCookie ==
    (resp.route \in {"register", "login"} /\ resp.status \in {200, 201})
    => (resp.body.refreshToken = NoToken /\ resp.body.cookie # NoToken)

\* C17: the legacy POST /add-game-to-database answers 420 (500 when the
\* existence query fails) and inserts nothing when a gameinfo row has the
\* request's name and console, and gameinfo never holds two rows with the
\* same name and console.
C17_DuplicateGameRejected ==
    /\ [](\A g \in gameinfo, x \in gameinfo :
            (g.name = x.name /\ g.console = x.console) => g = x)
    /\ [][(/\ resp'.route = "add-game-to-database"
           /\ resp'.reached
           /\ \E g \in gameinfo : /\ g.name = resp'.req.name
                                  /\ g.console = resp'.req.consoles)
          => /\ gameinfo' = gameinfo
             /\ resp'.status = IF resp'.dberr THEN 500 ELSE 420]_vars

C17_Witness ==
    /\ resp.route = "add-game-to-database"
    /\ resp.status = 420
    /\ Cardinality(gameinfo) = 2

\* C18: the password column of every useraccount row is a bcrypt hash; after
\* a 201 of POST /register the new row holds the hash of the request's
\* password, and after a 200 of PUT /api/update-password the row of the
\* path's user holds the hash of the request's newPassword.
C18_PasswordsStoredHashed ==
    /\ [](\A u \in useraccount :
            DOMAIN u.password = {"bcrypt"} /\ u.password.bcrypt \in Passwords)
    /\ [][\A s \in 1..conc :
            (reg[s].pc = "insert" /\ reg'[s].pc = "done" /\ reg'[s].status = 201)
            => \E u \in useraccount' \ useraccount :
                 /\ u.email = reg[s].body.email
                 /\ DOMAIN u.password = {"bcrypt"}
                 /\ u.password.bcrypt = reg[s].body.password]_vars
    /\ [][(resp'.route = "update-password" /\ resp'.status = 200)
          => \A u \in useraccount' :
               u.userid = resp'.req.userId
               => /\ DOMAIN u.password = {"bcrypt"}
                  /\ u.password.bcrypt = resp'.req.newPassword]_vars

\* update-password has replaced the password a user registered with
C18_Witness ==
    /\ resp.route = "update-password"
    /\ resp.status = 200
    /\ \E u \in useraccount, s \in 1..conc :
         /\ u.userid = resp.req.userId
         /\ reg[s].status = 201
         /\ reg[s].body.email = u.email
         /\ reg[s].body.password # resp.req.newPassword
         /\ u.password.bcrypt = resp.req.newPassword

\* C19: a POST /login with the username and password of a useraccount row,
\* whose user lookup returns without an error, responds 200 and hands out an
\* access token.
C19_ValidLoginReturnsToken ==
    [][\A username \in Usernames, password \in Passwords :
         (/\ Login(username, password, TRUE)
          /\ \E u \in useraccount :
               u.username = username /\ u.password = [bcrypt |-> password])
         => (resp'.status = 200 /\ resp'.body.accessToken # NoToken)]_vars

\* C20: POST /api/token/refresh answers 401 without a cookie; 403 when the
\* cookie is not signed with the refresh secret, has expired or names a user
\* without a useraccount row (and when the user lookup fails); otherwise 200
\* with only an access token, signed for the user the cookie names.  It leaves
\* the database and the client's cookie as they are.  POST /api/logout changes
\* nothing in the database, so a token sent after it is treated as before.
C20_TokenRefresh ==
    [][/\ (resp'.route = "refresh" /\ clock' = clock) =>
          LET token == resp'.tok IN
          /\ db' = db
          /\ cookie' = cookie
          /\ IF token = NoToken THEN resp'.status = 401
             ELSE IF \/ token.secret # "REFRESH_TOKEN_SECRET"
                     \/ token.exp <= clock
                     \/ ~\E u \in useraccount : u.userid = token.userId
                     \/ resp'.dberr
             THEN resp'.status = 403
             ELSE /\ resp'.status = 200
                  /\ DOMAIN resp'.body = {"accessToken"}
                  /\ resp'.body.accessToken.userId = token.userId
                  /\ resp'.body.accessToken.secret = "JWT_SECRET"
                  /\ resp'.body.accessToken.exp = clock + AccessTtlMinutes
       /\ (resp'.route = "logout" /\ clock' = clock) => db' = db]_vars

\* After a logout has cleared the client's cookie, a copy of the refresh
\* token is still exchanged for an access token
C20_Witness ==
    /\ resp.route = "refresh"
    /\ resp.status = 200
    /\ cookie = NoToken
    /\ resp.tok = IssuedRefreshToken(1)
    /\ resp.body.accessToken.userId = 1
    /\ clock > 0

\* The consoles of a wishlist entry
WishlistConsoles(wishlistid) ==
    {c.consoleid : c \in {x \in vgwishlist_console : x.wishlistid = wishlistid}}

\* C21: when PUT /api/edit-wishlist answers 200, the vgwishlist_console rows
\* of the entry are exactly the request's consoleIds; and when two requests
\* for one entry have both answered 200, the entry's consoles are the
\* consoleIds of one of the two.
C21_EditReplacesConsoleSet ==
    /\ [][\A s \in 1..conc :
            (edit[s].pc # "done" /\ edit'[s].pc = "done" /\ edit'[s].status = 200)
            => {c.consoleid : c \in {x \in vgwishlist_console' :
                                       x.wishlistid = edit'[s].wishlistid}}
               = edit'[s].consoleIds]_vars
    /\ []((/\ edit[1].pc = "done" /\ edit[1].status = 200
           /\ edit[2].pc = "done" /\ edit[2].status = 200
           /\ edit[1].wishlistid = edit[2].wishlistid)
          => WishlistConsoles(edit[1].wishlistid)
               \in {edit[1].consoleIds, edit[2].consoleIds})

\* C29: while no edit is between its delete and its insert, every vgwishlist
\* row has at least one vgwishlist_console row.
C29_EveryEntryKeepsAPlatform ==
    (\A s \in 1..conc : edit[s].pc \in {"idle", "done"})
    => \A w \in vgwishlist : WishlistConsoles(w.wishlistid) # {}

\* Number of rows of a table that carry the gameid
RowsOfGame(rows, g) == Cardinality({r \in rows : r.gameid = g})

\* What C22 requires of the result b of a report over the rows of a table
MostOf(rows, b) ==
    IF rows = {} THEN b = [count |-> 0]
    ELSE /\ \A g \in GameIds : RowsOfGame(rows, g) <= b.count
         /\ RowsOfGame(rows, b.gameid) = b.count
         /\ \A g \in GameIds : RowsOfGame(rows, g) = b.count => b.gameid <= g
         /\ [gameid |-> b.gameid, name |-> b.name] \in gameinfo

C22_WitnessWanted ==
    /\ resp.route = "reports" /\ resp.status = 200
    /\ "MostWantedGame" \in DOMAIN resp.body.results
    /\ resp.body.results["MostWantedGame"].count = 2

C22_WitnessEmpty ==
    /\ resp.route = "reports" /\ resp.status = 200
    /\ "MostWantedGame" \in DOMAIN resp.body.results
    /\ vgwishlist = {}

\* Collection entries whose gamedetails row exists
WithDetails ==
    {c \in vgcollection : \E d \in gamedetails : d.gamedetailsid = c.gamedetailsid}

\* C23: a 200 answer of the HighestReviewedGame report names a game of some
\* collection with the greatest rating of all gamedetails rows whenever a
\* collection entry has game details, and is {name: 'N/A', rating: 'N/A'}
\* only when none has.
C23_HighestReviewedGame ==
    (/\ resp.route = "reports" /\ resp.status = 200
     /\ "HighestReviewedGame" \in DOMAIN resp.body.results)
    => LET b == resp.body.results["HighestReviewedGame"] IN
       IF WithDetails = {} THEN b = NotAvailable
       ELSE /\ b.name # "N/A"
            /\ \A d \in gamedetails : d.rating <= b.rating
            /\ \E c \in vgcollection : c.gameid = b.gameid

\* C24: a request that reaches a handler authenticated as one user leaves
\* the useraccount, vgwishlist and vgcollection rows of every other user as
\* they were.
C24_OnlyOwnRowsChange ==
    [][\A b \in SeedUserIds :
         (resp'.reached /\ resp'.user # b)
         => /\ {u \in useraccount' : u.userid = b} = {u \in useraccount : u.userid = b}
            /\ {w \in vgwishlist' : w.userid = b} = {w \in vgwishlist : w.userid = b}
            /\ {c \in vgcollection' : c.userid = b} = {c \in vgcollection : c.userid = b}]_vars

\* C25: DELETE /api/removecollection for a pair without a vgcollection row
\* answers 404 and deletes nothing; for a pair with exactly one row it
\* answers 200 and removes the row and the gamedetails row it references.
C25_RemoveCollection ==
    [][(resp'.route = "removecollection" /\ resp'.reached)
       => LET rows == {c \in vgcollection : /\ c.userid = resp'.req.userId
                                            /\ c.gameid = resp'.req.gameId} IN
          /\ rows = {}
             => /\ resp'.status = 404
                /\ vgcollection' = vgcollection
                /\ gamedetails' = gamedetails
          /\ Cardinality(rows) = 1
             => /\ resp'.status = 200
                /\ vgcollection' = vgcollection \ rows
                /\ gamedetails' = {d \in gamedetails :
                                     \A c \in rows : d.gamedetailsid # c.gamedetailsid}]_vars

C26_WitnessForwarded == run.pc = "end" /\ run.forwarded /\ run.sent = 0

\* C27: two different users with a friendships row have no friend_requests
\* row between them, in either direction.
C27_FriendsHaveNoPendingRequest ==
    \A f \in friendships, r \in friend_requests :
       f.user_a # f.user_b
       => {r.requester_id, r.target_id} # {f.user_a, f.user_b}

\* C28: the user object in a 200 or 201 answer of POST /register and
\* POST /login has no field besides userid, username, email, admin and
\* avatar; the password hash is not in it.
C28_OnlySafeUserFields ==
    (resp.route \in {"register", "login"} /\ resp.status \in {200, 201})
    => DOMAIN resp.body.user \subseteq {"userid", "username", "email", "admin", "avatar"}

\* C30: GET /api/get-game-details returns the checkboxes that
\* add-game-details or edit-game-details stored, in the same order, when
\* they are an array of non-empty strings without comma and without leading
\* or trailing blank; it returns [] when the array is empty or the field was
\* left out.
C30_ConditionRoundTrip ==
    (resp.route = "get-game-details" /\ resp.status = 200)
    => LET cb == form.checkboxes
           returned == resp.body.gamedetails.condition IN
       /\ (cb = Undefined \/ cb = <<>>) => returned = <<>>
       /\ (/\ cb # Undefined
           /\ \A i \in 1..Len(cb) :
                /\ cb[i] # <<>>
                /\ \A k \in 1..Len(cb[i]) : cb[i][k] # ","
                /\ cb[i][1] # " "
                /\ cb[i][Len(cb[i])] # " ")
          => returned = cb

\* Two labels stored by add-game-details, joined with ', ', have been read
C30_Witness ==
    /\ resp.route = "get-game-details"
    /\ resp.status = 200
    /\ form.checkboxes = << <<"a", "b">>, <<"b">> >>
    /\ \E d \in gamedetails : d.condition = <<"a", "b", ",", " ", "b">>

\* The same labels after edit-game-details, joined with ','
C30_WitnessEdit ==
    /\ resp.route = "get-game-details"
    /\ resp.status = 200
    /\ form.checkboxes = << <<"a", "b">>, <<"b">> >>
    /\ \E d \in gamedetails : d.condition = <<"a", "b", ",", "b">>

C30_WitnessMissing ==
    /\ resp.route = "get-game-details"
    /\ resp.status = 200
    /\ form.checkboxes = Undefined

====
